---- MODULE Spec2Model ----
(***************************************************************************)
(* Model of the protocol / transport / tool-dispatch layer of the          *)
(* obsidian-claude-code-mcp plugin: the WebSocket server (McpServer), the  *)
(* HTTP/SSE server (McpHttpServer), the request router (McpHandlers, with  *)
(* the IdeHandler sub-handler), the ToolRegistry and the orchestrator      *)
(* (McpDualServer) as started by the plugin.                               *)
(*                                                                         *)
(* JavaScript runs every callback to completion, so one action is one      *)
(* callback (or the synchronous part of an async function up to its next   *)
(* await on I/O).                                                          *)
(***************************************************************************)
EXTENDS Integers, Sequences, FiniteSets, TLC

(* ------------------------------ bounds --------------------------------- *)
MaxClients == 2        \* clients that ever connect (sockets plus SSE streams)
MaxMsgs == 1           \* well-formed frames and accepted POSTs the clients send
MaxBroadcasts == 1     \* McpDualServer.broadcast calls
MaxPings == 1          \* keep-alive timer ticks
MaxCalls == 2          \* frames and POSTs of the concurrent-calls workload
MaxRestarts == 2       \* restartMcpServer calls in a run
MaxCreates == 3        \* tools/call requests for the create tool in a run

Conns == 1..MaxClients          \* the sockets, in the order they are accepted
SessionIds == 1..MaxClients     \* the values crypto.randomUUID() returns

(* ------------------------- program constants --------------------------- *)
EphemeralPort == 51234
DefaultHttpPort == 22360
MethodNotFound == -32601
InternalError == -32603

\* the addresses a listener can be bound to; listen() without a host binds the
\* unspecified address, i.e. every interface
NoHost == "-"
UnspecifiedAddress == "::"
LoopbackAddresses == {"127.0.0.1", "::1", "localhost"}

NoId == 0              \* the envelope has no "id" key (undefined)
NoPort == 0            \* undefined port in the start result
NoSession == 0         \* the POST carries no session_id query parameter

(* --------------------------- JSON-RPC values --------------------------- *)
IdeMethods == {"ide_connected", "notifications/initialized"}
LegacyMethods == {"readFile"}
Methods == {"initialize", "ping", "tools/list", "tools/call", "", "no/such"}
             \cup LegacyMethods \cup IdeMethods

GeneralToolNames == {"view"}
IdeToolNames == {"getDiagnostics"}
ToolNameInputs == GeneralToolNames \cup IdeToolNames \cup {"no_such_tool"}

\* msg argument of a reply callback: Omit<McpResponse, "jsonrpc" | "id">
Result(tag) == [result |-> tag, error |-> 0, tools |-> {}]
ToolsResult(ts) == [result |-> "tools", error |-> 0, tools |-> ts]
ErrorMsg(code) == [result |-> "-", error |-> code, tools |-> {}]

\* steps of an async handler: a call of reply, or a suspension on I/O
ReplyStep(msg) == [op |-> "reply", msg |-> msg]
AwaitStep == [op |-> "await", msg |-> Result("-")]
HangStep == [op |-> "hang", msg |-> Result("-")]

(* What a ToolImplementation.handler may do: call reply, await I/O, throw   *)
(* (or reject); a script that ends without "throw" returns normally.        *)
HandlerScripts ==
    { <<>>, <<"reply">>, <<"throw">>, <<"await", "reply">>, <<"reply", "throw">>,
      <<"reply", "reply">>, <<"await", "throw">> }

\* the handlers of the concurrent-calls workload; "hang" awaits a promise that
\* never settles
CallScripts ==
    { <<"reply">>, <<"await", "reply">>, <<"throw">>, <<"await", "throw">>, <<"hang">> }

\* FileTools.handleReadFile: bad parameter, read succeeds, read fails
LegacyScripts == { <<"reply">>, <<"await", "reply">>, <<"await", "throw">> }

(* frames and bodies as they arrive: text that is not JSON, or JSON text    *)
Malformed == [json |-> FALSE, value |-> <<>>]
JsonText(v) == [json |-> TRUE, value |-> v]

\* the JSON value null: it has no properties, and reading one throws TypeError
JsonNull == <<>>
IsNull(v) == DOMAIN v = {}

\* JSON.parse: throws SyntaxError on text that is not JSON
JSONparse(raw) ==
    IF raw.json THEN [ok |-> TRUE, value |-> raw.value]
    ELSE [ok |-> FALSE, value |-> <<>>]

Envelope(id, method, name) == [id |-> id, method |-> method, name |-> name]


\* what the server writes to a client, as the decoded JSON text
WireResponse(t, id, msg) ==
    [kind |-> "response", id |-> id, result |-> msg.result, error |-> msg.error,
     tools |-> msg.tools, re |-> t, n |-> 0]
WireNotification(n) ==
    [kind |-> "notification", id |-> NoId, result |-> "-", error |-> 0,
     tools |-> {}, re |-> 0, n |-> n]

\* JSON.stringify of an envelope: the text whose parse is the envelope
JSONstringify(v) == JsonText(v)

SSEEvent(event, data, id) == [event |-> event, data |-> data, id |-> id]
EndpointData(s) == [path |-> "/messages", session_id |-> s]

(* ------------------------------ registries ----------------------------- *)
\* McpDualServer.registerTools: general tools go to both registries,
\* ide-specific tools to the WebSocket registry only
wsToolRegistry == GeneralToolNames \cup IdeToolNames

\* an HTTP registry that was handed the ide-specific tools as well
httpToolRegistry_withIde == GeneralToolNames \cup IdeToolNames

httpToolRegistry == GeneralToolNames

(* ------------------------------- router -------------------------------- *)
isIdeMethod(method) == method \in IdeMethods

\* a handleToolCall without the catch: a throwing handler is not answered for
RECURSIVE TryCatch_uncaught(_, _, _)
TryCatch_uncaught(script, okMsg, errMsg) ==
    IF script = <<>> THEN <<>>
    ELSE IF Head(script) = "throw" THEN <<>>
    ELSE IF Head(script) = "hang" THEN <<HangStep>>
    ELSE IF Head(script) = "reply"
         THEN <<ReplyStep(okMsg)>> \o TryCatch_uncaught(Tail(script), okMsg, errMsg)
         ELSE <<AwaitStep>> \o TryCatch_uncaught(Tail(script), okMsg, errMsg)

\* try { await handler(...) } catch (error) { reply({ error }) }
RECURSIVE TryCatch(_, _, _)
TryCatch(script, okMsg, errMsg) ==
    IF script = <<>> THEN <<>>
    ELSE IF Head(script) = "throw" THEN <<ReplyStep(errMsg)>>
    ELSE IF Head(script) = "hang" THEN <<HangStep>>
    ELSE IF Head(script) = "reply"
         THEN <<ReplyStep(okMsg)>> \o TryCatch(Tail(script), okMsg, errMsg)
         ELSE <<AwaitStep>> \o TryCatch(Tail(script), okMsg, errMsg)

\* a handleToolCall that answers an unknown tool with a protocol error
handleToolCall_methodNotFound(registry, name, script) ==
    IF name \notin registry
    THEN <<ReplyStep(ErrorMsg(MethodNotFound))>>
    ELSE TryCatch(script, Result("tool"), ErrorMsg(InternalError))

\* ToolRegistry.handleToolCall
handleToolCall(registry, name, script) ==
    IF name \notin registry
    THEN <<ReplyStep(Result("not registered"))>>
    ELSE TryCatch(script, Result("tool"), ErrorMsg(InternalError))

\* IdeHandler.handleRequest: both IDE methods report "handled" and never reply
IdeHandler_handleRequest(method) == method \in {"ide_connected", "notifications/initialized"}

\* a router whose initialize echoes what the client asked for in its params
handleRequestGeneric_negotiating(req, source, script) ==
    IF isIdeMethod(req.method) /\ IdeHandler_handleRequest(req.method) THEN <<>>
    ELSE CASE req.method = "initialize" ->
                <<ReplyStep(Result(IF req.name = "-" THEN "initialize" ELSE req.name))>>
           [] req.method = "prompts/list" -> <<ReplyStep(Result("prompts: []"))>>
           [] req.method = "ping" -> <<ReplyStep(Result("pong"))>>
           [] req.method = "resources/list" -> <<ReplyStep(Result("resources: []"))>>
           [] OTHER -> <<ReplyStep(ErrorMsg(MethodNotFound))>>

\* the steps McpHandlers.handleRequestGeneric performs for a request
handleRequestGeneric(req, source, script) ==
    IF isIdeMethod(req.method) /\ IdeHandler_handleRequest(req.method) THEN <<>>
    ELSE CASE req.method = "initialize" -> <<ReplyStep(Result("initialize"))>>
           [] req.method = "tools/list" ->
                <<ReplyStep(ToolsResult(IF source = "ws" THEN wsToolRegistry
                                        ELSE httpToolRegistry))>>
           [] req.method = "prompts/list" -> <<ReplyStep(Result("prompts: []"))>>
           [] req.method = "ping" -> <<ReplyStep(Result("pong"))>>
           [] req.method \in LegacyMethods ->
                TryCatch(script, Result("file"), ErrorMsg(InternalError))
           [] req.method = "tools/call" ->
                handleToolCall(IF source = "ws" THEN wsToolRegistry
                               ELSE httpToolRegistry, req.name, script)
           [] req.method = "resources/list" -> <<ReplyStep(Result("resources: []"))>>
           [] OTHER -> <<ReplyStep(ErrorMsg(MethodNotFound))>>

\* the request reaches a handler that can call reply, await or throw
HandlerInvoked(req, source) ==
    \/ req.method \in LegacyMethods
    \/ /\ req.method = "tools/call"
       /\ req.name \in (IF source = "ws" THEN wsToolRegistry ELSE httpToolRegistry)

\* run a handler up to its next suspension: the replies it issues, what is left
FirstAwait(prog) ==
    IF \E i \in 1..Len(prog) : prog[i].op \in {"await", "hang"}
    THEN CHOOSE i \in 1..Len(prog) :
            /\ prog[i].op \in {"await", "hang"}
            /\ \A j \in 1..(i - 1) : prog[j].op \notin {"await", "hang"}
    ELSE Len(prog) + 1
RunSegment(prog) ==
    LET k == FirstAwait(prog) IN
    [msgs |-> [i \in 1..(k - 1) |-> prog[i].msg],
     rest |-> IF k <= Len(prog) /\ prog[k].op = "hang"
              THEN SubSeq(prog, k, Len(prog))
              ELSE SubSeq(prog, k + 1, Len(prog)),
     done |-> k > Len(prog)]

\* the handler waits for something that never happens
Hung(prog) == prog # <<>> /\ Head(prog).op = "hang"

(* ------------------------------- state --------------------------------- *)
VARIABLES
    config,            \* DualServerConfig: enableWebSocket, enableHttp
    wsServer,          \* McpDualServer.wsServer is set
    httpServer,        \* McpDualServer.httpServer is set
    wsListening,       \* the WebSocketServer is bound
    httpListening,     \* the http.Server is bound
    listenHost,        \* the address each listener was told to bind
    workload,          \* what the clients send: "any" envelope, concurrent "calls",
                       \* the "static" methods, or the "ide" notifications
    startResult,       \* how McpDualServer.start() completed
    faults,            \* what the environment did to the two binds of start()
    notice,            \* the Notice the plugin showed after start
    readyState,        \* WebSocket.readyState of each connection
    connectedClients,  \* McpServer.connectedClients
    wsLog,             \* per connection: 'error' events seen, onDisconnection calls
    wsOut,             \* frames the server sent on each connection
    sessions,          \* keys of McpHttpServer.sessions
    activeStreams,     \* session ids of McpHttpServer.activeStreams
    minted,            \* ids crypto.randomUUID() has returned
    destroyed,         \* sessions whose ServerResponse is destroyed
    ended,             \* sessions whose ServerResponse had end() called by stop()
    pingTimers,        \* sessions whose setInterval is armed
    httpDisconnections, \* calls of config.onDisconnection, per session
    pings,             \* timer ticks so far
    sseOut,            \* events written on the stream of each session
    eventIdCounter,    \* McpHttpServer.eventIdCounter
    posts,             \* POSTs that passed the session check
    reqs,              \* envelopes handed to the router
    initTimers,        \* pending setTimeout(sendInitialContext)
    bcastLog,          \* per broadcast: who was connected when it was called
    lastEvent,         \* the callback that ran last
    processEnv,        \* process.env and process.platform
    files,             \* the paths that exist in the file system
    lockFilePath,      \* McpServer.lockFilePath
    wss,               \* McpServer.wss: none, listening, failed, closed
    written,           \* the paths this server has written
    lockContent,       \* what the file at lockFilePath holds
    ideDirAtStart,     \* getClaudeIdeDir() as of the call of McpServer.start
    resolved,          \* the last result of getClaudeConfigDir, with its inputs
    tools,             \* ToolRegistry.tools of the two registries
    phase,             \* McpDualServer: constructing, constructed, failed, started, stopped
    lastSetup,         \* the construction / start / stop operation that ran last
    plugin,            \* ClaudeMcpPlugin: settings, mcpServer, the orchestrators it made
    vault              \* the vault files, and the create calls in flight

setupOwn == <<processEnv, files, lockFilePath, wss, written, lockContent, ideDirAtStart,
              resolved,
              tools, phase, lastSetup>>
setupVars == <<setupOwn, plugin, vault>>

vars == <<config, wsServer, httpServer, wsListening, httpListening, listenHost, workload,
          startResult,
          faults, notice, readyState, connectedClients, wsLog, wsOut, sessions,
          activeStreams, minted, destroyed, ended, pingTimers, httpDisconnections,
          pings, sseOut,
          eventIdCounter, posts, reqs, initTimers, bcastLog, lastEvent, setupVars>>

\* what only start() and stop() of the orchestrator change
orchVars == <<config, wsServer, httpServer, wsListening, httpListening, listenHost,
              workload,
              startResult, faults, notice, ended, setupVars>>
serveOwn == <<config, wsServer, httpServer, wsListening, httpListening, listenHost,
               workload,
               startResult,
               faults, notice, readyState, connectedClients, wsLog, wsOut, sessions,
               activeStreams, minted, destroyed, ended, pingTimers, httpDisconnections,
          pings, sseOut,
               eventIdCounter, posts, reqs, initTimers, bcastLog, lastEvent>>
serveVars == <<serveOwn, plugin, vault>>
wsConnVars == <<readyState, connectedClients, wsLog>>
httpConnVars == <<sessions, activeStreams, minted, destroyed, pingTimers,
                  httpDisconnections>>

\* well-formed frames received and POSTs accepted so far
\* frames and POSTs the clients send in a run
MsgBudget == IF workload = "any" THEN MaxMsgs ELSE MaxCalls

Submissions == Cardinality({t \in DOMAIN reqs : reqs[t].tr = "ws"}) + Len(posts)

\* clients that have connected so far, on either transport
ClientsSoFar == Cardinality({c \in Conns : readyState[c] # "NONE"}) + Cardinality(minted)

Event(kind, ch, status) == [kind |-> kind, ch |-> ch, status |-> status]

\* the environment of a plain Unix installation, before anything was set up
PlainEnv == [CLAUDE_CONFIG_DIR |-> "", XDG_CONFIG_HOME |-> "", APPDATA |-> "",
             HOME |-> "/home/u", USERPROFILE |-> "", platform |-> "linux"]

NoPath == <<>>
NotResolved == [called |-> FALSE, dir |-> NoPath, modernExisted |-> FALSE,
                legacyExisted |-> FALSE]
\* the discovery record: JSON.stringify(lockFileContent) and its parse
Pid == 4242
LockRecord(folders) ==
    [pid |-> Pid, workspaceFolders |-> folders, ideName |-> "Obsidian", transport |-> "ws"]
NoRecord == [pid |-> 0, workspaceFolders |-> <<>>, ideName |-> "-", transport |-> "-"]
\* getBasePath() of the vault, before and after the workspace root changed
BasePaths == {"/vault", "/moved"}

\* the plugin before onload, with the default settings
PluginIdle ==
    [settings |-> [enableWebSocketServer |-> TRUE, enableHttpServer |-> TRUE],
     instances |-> <<>>, mcpServer |-> 0, delays |-> 0, restarts |-> 0,
     loaded |-> FALSE, unloaded |-> FALSE]

\* the vault: no file at any path, no call of the create tool yet
VaultPaths == {"a.md", "b.md"}
NoFile == "-"
VaultIdle == [content |-> [f \in VaultPaths |-> NoFile], calls |-> <<>>]

NoSetup == [op |-> "none", threw |-> FALSE, definition |-> "-", implementation |-> "-"]

\* nothing has been registered, resolved, written or bound
SetupIdle ==
    /\ lockFilePath = NoPath
    /\ wss = "none"
    /\ written = {}
    /\ lockContent = NoRecord
    /\ ideDirAtStart = NoPath
    /\ resolved = NotResolved
    /\ tools = [ws |-> <<>>, http |-> <<>>]
    /\ phase = "constructing"
    /\ lastSetup = NoSetup
    /\ plugin = PluginIdle
    /\ vault = VaultIdle

\* the servers before McpDualServer.start()
ServeInit ==
    /\ config \in [enableWebSocket : BOOLEAN, enableHttp : BOOLEAN]
    /\ wsServer = FALSE
    /\ httpServer = FALSE
    /\ wsListening = FALSE
    /\ httpListening = FALSE
    /\ listenHost = [ws |-> NoHost, http |-> NoHost]
    /\ startResult = [status |-> "none", wsPort |-> NoPort, httpPort |-> NoPort,
                      err |-> "-"]
    /\ faults = [ws |-> "none", http |-> "none"]
    /\ notice = "-"
    /\ readyState = [c \in Conns |-> "NONE"]
    /\ connectedClients = {}
    /\ wsLog = [c \in Conns |-> [errors |-> 0, disconnections |-> 0]]
    /\ wsOut = [c \in Conns |-> <<>>]
    /\ sessions = {}
    /\ activeStreams = {}
    /\ minted = {}
    /\ destroyed = {}
    /\ ended = {}
    /\ pingTimers = {}
    /\ httpDisconnections = [s \in SessionIds |-> 0]
    /\ pings = 0
    /\ sseOut = [s \in SessionIds |-> <<>>]
    /\ eventIdCounter = 0
    /\ posts = <<>>
    /\ reqs = <<>>
    /\ initTimers = 0
    /\ bcastLog = <<>>
    /\ lastEvent = Event("init", 0, 0)

Init ==
    /\ processEnv = PlainEnv
    /\ files = {}
    /\ SetupIdle
    /\ ServeInit
    /\ workload = "any"


(* ----------------------------- orchestrator ---------------------------- *)
\* the bind of the WebSocketServer may fail; createLockFile may fail after it
WsFaults == {"none", "bind", "EACCES"}
HttpFaults == {"none", "EADDRINUSE", "EACCES", "ENOTFOUND"}

\* the error node's listen() emits
NodeError(code) == [name |-> "Error", code |-> code, message |-> <<"listen", code>>]
Includes(message, word) == \E i \in 1..Len(message) : message[i] = word

\* McpServer.start: the WebSocketServer is bound, then the lock file is written
McpServer_start(fault) ==
    [listening |-> fault # "bind",
     host |-> UnspecifiedAddress,
     port |-> IF fault = "none" THEN EphemeralPort ELSE NoPort,
     threw |-> fault # "none"]

\* McpHttpServer.start: resolves with the port, or rejects with node's error
McpHttpServer_start(port, fault) ==
    [listening |-> fault = "none",
     host |-> "127.0.0.1",
     port |-> IF fault = "none" THEN port ELSE NoPort,
     threw |-> fault # "none",
     error |-> NodeError(fault)]

\* a start() that swallows every HTTP start failure
Rethrown_never(error) == FALSE

\* the condition under which McpDualServer.start re-throws an HTTP failure
Rethrown(error) ==
    \/ error.name \in {"PortInUseError", "PermissionError"}
    \/ Includes(error.message, "EADDRINUSE")
    \/ Includes(error.message, "EACCES")

\* a start() that gives up when the WebSocket server failed to start
McpDualServer_start_wsFirst(cfg, wsFault, httpFault) ==
    LET ws == McpServer_start(wsFault)
        http == McpHttpServer_start(DefaultHttpPort, httpFault)
        wsFailed == cfg.enableWebSocket /\ ws.threw
        httpRuns == cfg.enableHttp /\ ~wsFailed
    IN  [wsServer |-> cfg.enableWebSocket,
         wsListening |-> cfg.enableWebSocket /\ ws.listening,
         httpServer |-> httpRuns,
         httpListening |-> httpRuns /\ http.listening,
         listenHost |-> [ws |-> IF cfg.enableWebSocket THEN ws.host ELSE NoHost,
                         http |-> IF httpRuns THEN http.host ELSE NoHost],
         outcome |->
            IF httpRuns /\ http.threw /\ Rethrown(http.error)
            THEN [status |-> "threw", wsPort |-> NoPort, httpPort |-> NoPort,
                  err |-> http.error.code]
            ELSE [status |-> "returned",
                  wsPort |-> IF cfg.enableWebSocket /\ ~ws.threw THEN ws.port ELSE NoPort,
                  httpPort |-> IF httpRuns /\ ~http.threw THEN http.port ELSE NoPort,
                  err |-> "-"]]

\* McpDualServer.start
McpDualServer_start(cfg, wsFault, httpFault) ==
    LET ws == McpServer_start(wsFault)
        http == McpHttpServer_start(DefaultHttpPort, httpFault)
        wsPort == IF cfg.enableWebSocket /\ ~ws.threw THEN ws.port ELSE NoPort
        httpPort == IF cfg.enableHttp /\ ~http.threw THEN http.port ELSE NoPort
    IN  [wsServer |-> cfg.enableWebSocket,
         wsListening |-> cfg.enableWebSocket /\ ws.listening,
         httpServer |-> cfg.enableHttp,
         httpListening |-> cfg.enableHttp /\ http.listening,
         listenHost |-> [ws |-> IF cfg.enableWebSocket THEN ws.host ELSE NoHost,
                         http |-> IF cfg.enableHttp THEN http.host ELSE NoHost],
         outcome |->
            IF cfg.enableHttp /\ http.threw /\ Rethrown(http.error)
            THEN [status |-> "threw", wsPort |-> NoPort, httpPort |-> NoPort,
                  err |-> http.error.code]
            ELSE [status |-> "returned", wsPort |-> wsPort, httpPort |-> httpPort,
                  err |-> "-"]]

\* the Notice ClaudeMcpPlugin.initializeMcpServer shows
PluginNotice(outcome) ==
    IF outcome.status = "returned" THEN "running"
    ELSE IF outcome.err = "EADDRINUSE" THEN "port in use"
    ELSE IF outcome.err = "EACCES" THEN "permission denied"
    ELSE "failed"

initializeMcpServer(wsFault, httpFault) ==
    /\ startResult.status = "none"
    /\ (~config.enableWebSocket => wsFault = "none")
    /\ (~config.enableHttp => httpFault = "none")
    /\ LET r == McpDualServer_start(config, wsFault, httpFault) IN
        /\ wsServer' = r.wsServer
        /\ wsListening' = r.wsListening
        /\ httpServer' = r.httpServer
        /\ httpListening' = r.httpListening
        /\ listenHost' = r.listenHost
        /\ startResult' = r.outcome
        /\ notice' = PluginNotice(r.outcome)
    /\ faults' = [ws |-> wsFault, http |-> httpFault]
    /\ lastEvent' = Event("other", 0, 0)
    /\ UNCHANGED <<config, workload, wsConnVars, wsOut, httpConnVars, ended, pings, sseOut,
                   eventIdCounter, posts, reqs, initTimers, bcastLog, setupVars>>

(* ------------------------------ dispatch ------------------------------- *)
\* the handler behaviours that can occur for a request: what the implementation
\* of the named tool does if it is invoked, whichever registry holds it
ScriptChoices(req, source) ==
    IF req.method \in LegacyMethods THEN LegacyScripts
    ELSE IF req.method = "tools/call" /\ req.name \in GeneralToolNames \cup IdeToolNames
         THEN (IF workload = "calls" THEN CallScripts ELSE HandlerScripts)
         ELSE { <<>> }

\* the part of the state a dispatched envelope can change
Cur == [reqs |-> reqs, wsOut |-> wsOut, sseOut |-> sseOut,
        eventIdCounter |-> eventIdCounter, initTimers |-> initTimers]

\* a reply closure whose send goes out whatever the socket's readyState
WsReply_anyState(st, t, msgs) ==
    LET r == st.reqs[t] IN
    [st EXCEPT !.wsOut[r.ch] =
        @ \o [i \in 1..Len(msgs) |-> WireResponse(t, r.id, msgs[i])]]

\* the reply closure of McpHandlers.handleRequest: sock.send(JSON.stringify(..));
\* ws drops a send on a socket that is not OPEN
WsReply(st, t, msgs) ==
    LET r == st.reqs[t] IN
    IF readyState[r.ch] = "OPEN"
    THEN [st EXCEPT !.wsOut[r.ch] =
            @ \o [i \in 1..Len(msgs) |-> WireResponse(t, r.id, msgs[i])]]
    ELSE st

\* res.write() on a response that was ended and is not destroyed yet: nothing
\* goes out, and ERR_STREAM_WRITE_AFTER_END is emitted as an 'error' event,
\* for which the response has no listener
WriteAfterEnd == SSEEvent("ERR_STREAM_WRITE_AFTER_END", EndpointData(0), 0)

\* McpHttpServer.sendSSEMessage: returns at once on a destroyed response,
\* writes on any other
sendSSEMessage(s, ev) ==
    IF s \in destroyed THEN <<>>
    ELSE IF s \in ended THEN << WriteAfterEnd >>
    ELSE << ev >>

\* the reply closure of McpHttpServer.handleMessages: ++eventIdCounter, then
\* sendSSEMessage
SseReply(st, t, msgs) ==
    LET r == st.reqs[t]
        c == st.eventIdCounter
        st1 == [st EXCEPT !.eventIdCounter = c + Len(msgs)]
        RECURSIVE Written(_)
        Written(i) ==
            IF i > Len(msgs) THEN <<>>
            ELSE sendSSEMessage(r.ch, SSEEvent("message",
                                               WireResponse(t, r.id, msgs[i]), c + i))
                 \o Written(i + 1)
    IN  [st1 EXCEPT !.sseOut[r.ch] = @ \o Written(1)]

\* a notification reply that writes to the session's stream like a request's
HttpNotificationReply_live == "sse"

\* the reply passed for a notification POSTed over HTTP: () => {}
HttpNotificationReply == "noop"

Emit(st, t, msgs) ==
    CASE st.reqs[t].replyFn = "ws" -> WsReply(st, t, msgs)
      [] st.reqs[t].replyFn = "sse" -> SseReply(st, t, msgs)
      [] OTHER -> st

\* config.onMessage -> McpHandlers.handleRequest / handleHttpRequest: the
\* synchronous part of handleRequestGeneric
Dispatch(st, tr, ch, replyFn, post, env, script) ==
    LET t == Len(st.reqs) + 1
        \* console.debug(..., req.method, req.params) is the first statement of
        \* the async entry point: on null it throws, the promise is rejected
        rejected == [tr |-> tr, ch |-> ch, id |-> NoId, method |-> "",
                     name |-> "-", replyFn |-> replyFn, post |-> post,
                     afterMalformed |-> lastEvent = Event("ws malformed", ch, 0),
                     script |-> <<>>, prog |-> <<>>, pc |-> "rejected"]
        seg == IF IsNull(env) THEN [msgs |-> <<>>, rest |-> <<>>, done |-> TRUE]
               ELSE RunSegment(handleRequestGeneric(env, tr, script))
        rec == IF IsNull(env) THEN rejected ELSE
               [tr |-> tr, ch |-> ch, id |-> env.id, method |-> env.method,
                name |-> env.name, replyFn |-> replyFn, post |-> post,
                afterMalformed |-> lastEvent = Event("ws malformed", ch, 0),
                script |-> IF workload = "calls" /\ HandlerInvoked(env, tr)
                           THEN script ELSE <<>>,
                prog |-> seg.rest,
                pc |-> IF seg.done THEN "done" ELSE "suspended"]
        st1 == [st EXCEPT !.reqs = Append(@, rec),
                          !.initTimers = IF ~IsNull(env) /\ env.method = "notifications/initialized"
                                         THEN @ + 1 ELSE @]
    IN  Emit(st1, t, seg.msgs)

\* an event loop that a stalled handler blocks: nothing resumes while some
\* handler awaits a promise that never settles
HandlerResume_serial(t) ==
    /\ t \in 1..Len(reqs)
    /\ reqs[t].pc = "suspended"
    /\ \A u \in 1..Len(reqs) : ~Hung(reqs[u].prog)
    /\ LET seg == RunSegment(reqs[t].prog)
           st1 == [Cur EXCEPT !.reqs[t].prog = seg.rest,
                              !.reqs[t].pc = IF seg.done THEN "done" ELSE "suspended"]
           st2 == Emit(st1, t, seg.msgs)
       IN  /\ reqs' = st2.reqs
           /\ wsOut' = st2.wsOut
           /\ sseOut' = st2.sseOut
           /\ eventIdCounter' = st2.eventIdCounter
    /\ lastEvent' = Event("other", 0, 0)
    /\ UNCHANGED <<orchVars, wsConnVars, httpConnVars, pings, posts, initTimers,
                   bcastLog>>

\* a suspended handler resumes after its I/O completed
HandlerResume(t) ==
    /\ t \in 1..Len(reqs)
    /\ reqs[t].pc = "suspended"
    /\ ~Hung(reqs[t].prog)
    /\ LET seg == RunSegment(reqs[t].prog)
           st1 == [Cur EXCEPT !.reqs[t].prog = seg.rest,
                              !.reqs[t].pc = IF seg.done THEN "done" ELSE "suspended"]
           st2 == Emit(st1, t, seg.msgs)
       IN  /\ reqs' = st2.reqs
           /\ wsOut' = st2.wsOut
           /\ sseOut' = st2.sseOut
           /\ eventIdCounter' = st2.eventIdCounter
    /\ lastEvent' = Event("other", 0, 0)
    /\ UNCHANGED <<orchVars, wsConnVars, httpConnVars, pings, posts, initTimers,
                   bcastLog>>

(* -------------------------- WebSocket transport ------------------------ *)
\* the concurrent-calls workload: requests that call a shared tool, and pings
CallEnvelopes(fresh) ==
    { Envelope(fresh, "ping", "-"), Envelope(fresh, "no/such", "-") }
    \cup { Envelope(fresh, "tools/call", n) : n \in GeneralToolNames }

\* the methods whose result is a literal of the router
StaticMethods == {"initialize", "ping", "prompts/list", "resources/list"}

\* requests for them, without params ("-") and with params
StaticEnvelopes(fresh) == { Envelope(fresh, m, n) : m \in StaticMethods, n \in {"-", "p"} }

\* what Claude Code sends to announce itself, as a notification or with an id
IdeEnvelopes(fresh) == { Envelope(id, m, "-") : id \in {NoId, fresh}, m \in IdeMethods }

EnvelopeInputs(fresh) ==
    IF workload = "calls" THEN CallEnvelopes(fresh)
    ELSE IF workload = "static" THEN StaticEnvelopes(fresh)
    ELSE IF workload = "ide" THEN IdeEnvelopes(fresh)
    ELSE { Envelope(id, m, n) : id \in {NoId, fresh}, m \in Methods \ {"tools/call"},
                                n \in {"-"} }
         \cup { Envelope(id, "tools/call", n) : id \in {NoId, fresh}, n \in ToolNameInputs }

WsFrames(fresh) ==
    (IF workload = "calls" THEN {JsonText(JsonNull)}
     ELSE IF workload \in {"static", "ide"} THEN {} ELSE {Malformed})
    \cup { JSONstringify(e) : e \in EnvelopeInputs(fresh) }

\* wss.on("connection"): connections are numbered in the order they are accepted
WsConnect(c) ==
    /\ wsListening
    /\ ClientsSoFar < MaxClients
    /\ readyState[c] = "NONE"
    /\ \A d \in Conns : d < c => readyState[d] # "NONE"
    /\ readyState' = [readyState EXCEPT ![c] = "OPEN"]
    /\ connectedClients' = connectedClients \cup {c}
    /\ UNCHANGED wsLog
    /\ lastEvent' = Event("other", 0, 0)
    /\ UNCHANGED <<orchVars, wsOut, httpConnVars, pings, sseOut,
                   eventIdCounter, posts, reqs, initTimers, bcastLog>>

\* the closing handshake has begun: readyState is CLOSING, no callback has run
WsClosing(c) ==
    /\ readyState[c] = "OPEN"
    /\ readyState' = [readyState EXCEPT ![c] = "CLOSING"]
    /\ UNCHANGED wsLog
    /\ lastEvent' = Event("other", 0, 0)
    /\ UNCHANGED <<orchVars, connectedClients, wsOut, httpConnVars,
                   pings, sseOut, eventIdCounter, posts, reqs, initTimers, bcastLog>>

\* an 'error' listener that leaves the socket in the set
WsError_keeps(c) ==
    /\ readyState[c] \in {"OPEN", "CLOSING"}
    /\ c \in connectedClients
    /\ wsLog[c].errors = 0
    /\ readyState' = [readyState EXCEPT ![c] = "CLOSING"]
    /\ UNCHANGED connectedClients
    /\ wsLog' = [wsLog EXCEPT ![c].errors = IF workload = "calls" THEN @ + 1 ELSE @]
    /\ lastEvent' = Event("other", 0, 0)
    /\ UNCHANGED <<orchVars, wsOut, httpConnVars, pings, sseOut,
                   eventIdCounter, posts, reqs, initTimers, bcastLog>>

\* McpServer.clientCount
McpServer_clientCount == Cardinality(connectedClients)

\* sock.on("error"): ws has left OPEN when it emits "error"; "close" follows
WsError(c) ==
    /\ readyState[c] \in {"OPEN", "CLOSING"}
    /\ c \in connectedClients
    /\ readyState' = [readyState EXCEPT ![c] = "CLOSING"]
    /\ connectedClients' = connectedClients \ {c}
    /\ wsLog' = [wsLog EXCEPT ![c].errors = IF workload = "calls" THEN @ + 1 ELSE @]
    /\ lastEvent' = Event("other", 0, 0)
    /\ UNCHANGED <<orchVars, wsOut, httpConnVars, pings, sseOut,
                   eventIdCounter, posts, reqs, initTimers, bcastLog>>

\* sock.on("close")
WsClose(c) ==
    /\ readyState[c] \in {"OPEN", "CLOSING"}
    /\ readyState' = [readyState EXCEPT ![c] = "CLOSED"]
    /\ connectedClients' = connectedClients \ {c}
    /\ wsLog' = [wsLog EXCEPT ![c].disconnections = @ + 1]
    /\ lastEvent' = Event("other", 0, 0)
    /\ UNCHANGED <<orchVars, wsOut, httpConnVars, pings, sseOut,
                   eventIdCounter, posts, reqs, initTimers, bcastLog>>

\* a handleMessage that answers an unparseable frame with an error Response
handleMessage_answering(c, raw, script) ==
    LET parsed == JSONparse(raw) IN
    IF ~parsed.ok
    THEN /\ lastEvent' = Event("ws malformed", c, 0)
         /\ wsOut' = [wsOut EXCEPT ![c] =
                        Append(@, WireResponse(0, NoId, ErrorMsg(InternalError)))]
         /\ UNCHANGED <<reqs, sseOut, eventIdCounter, initTimers,
                        readyState, connectedClients, wsLog>>
    ELSE /\ Submissions < MsgBudget
         /\ LET st == Dispatch(Cur, "ws", c, "ws", 0, parsed.value, script) IN
             /\ reqs' = st.reqs
             /\ wsOut' = st.wsOut
             /\ sseOut' = st.sseOut
             /\ eventIdCounter' = st.eventIdCounter
             /\ initTimers' = st.initTimers
         /\ lastEvent' = Event("other", 0, 0)
         /\ UNCHANGED <<readyState, connectedClients, wsLog>>

\* McpServer.handleMessage on a frame that JSON.parse accepts or rejects
handleMessage(c, raw, script) ==
    LET parsed == JSONparse(raw) IN
    IF ~parsed.ok
    THEN /\ lastEvent' = Event("ws malformed", c, 0)
         /\ UNCHANGED <<reqs, wsOut, sseOut, eventIdCounter, initTimers,
                        readyState, connectedClients, wsLog>>
    ELSE /\ Submissions < MsgBudget
         /\ LET st == Dispatch(Cur, "ws", c, "ws", 0, parsed.value, script) IN
             /\ reqs' = st.reqs
             /\ wsOut' = st.wsOut
             /\ sseOut' = st.sseOut
             /\ eventIdCounter' = st.eventIdCounter
             /\ initTimers' = st.initTimers
         /\ lastEvent' = Event("other", 0, 0)
         /\ UNCHANGED <<readyState, connectedClients, wsLog>>

\* sock.on("message")
WsMessage(c) ==
    /\ readyState[c] = "OPEN"
    /\ \E raw \in WsFrames(Len(reqs) + 1) :
        \E script \in (IF raw.json /\ ~IsNull(raw.value)
                       THEN ScriptChoices(raw.value, "ws") ELSE { <<>> }) :
            handleMessage(c, raw, script)
    /\ UNCHANGED <<orchVars, httpConnVars, pings, posts, bcastLog>>


(* --------------------------- HTTP/SSE transport ------------------------ *)

\* crypto.randomUUID(): a value it has not returned before (ids are numbered in
\* the order they are minted)
randomUUID(s) == s \notin minted /\ \A d \in SessionIds : d < s => d \in minted

\* a handleSSEConnection whose endpoint event does not name the session
handleSSEConnection_anonymous(s, acceptsEventStream) ==
    IF ~acceptsEventStream
    THEN /\ lastEvent' = Event("other", 0, 0)
         /\ UNCHANGED <<sessions, activeStreams, minted, destroyed, pingTimers, sseOut>>
    ELSE /\ ClientsSoFar < MaxClients
         /\ randomUUID(s)
         /\ minted' = minted \cup {s}
         /\ sessions' = sessions \cup {s}
         /\ activeStreams' = activeStreams \cup {s}
         /\ sseOut' = [sseOut EXCEPT
                         ![s] = Append(@, SSEEvent("endpoint", EndpointData(NoSession), 0))]
         /\ pingTimers' = pingTimers \cup {s}
         /\ lastEvent' = Event("other", 0, 0)
         /\ UNCHANGED destroyed

\* McpHttpServer.handleSSEConnection (GET /sse)
handleSSEConnection(s, acceptsEventStream) ==
    IF ~acceptsEventStream
    THEN /\ lastEvent' = Event("other", 0, 0)
         /\ UNCHANGED <<sessions, activeStreams, minted, destroyed, pingTimers, sseOut>>
    ELSE /\ ClientsSoFar < MaxClients
         /\ randomUUID(s)
         /\ minted' = minted \cup {s}
         /\ sessions' = sessions \cup {s}
         /\ activeStreams' = activeStreams \cup {s}
         /\ sseOut' = [sseOut EXCEPT ![s] = Append(@, SSEEvent("endpoint", EndpointData(s), 0))]
         /\ pingTimers' = pingTimers \cup {s}
         /\ lastEvent' = Event("other", 0, 0)
         /\ UNCHANGED destroyed

HttpGet(s) ==
    /\ httpListening
    /\ \E acceptsEventStream \in BOOLEAN :
          /\ (~acceptsEventStream => s = 1)
          /\ handleSSEConnection(s, acceptsEventStream)
    /\ UNCHANGED <<orchVars, wsConnVars, wsOut, pings, eventIdCounter, posts, reqs,
                   initTimers, bcastLog, httpDisconnections>>

\* a teardown without the second 'close' listener: the interval stays armed
HttpClose_keepsTimer(s) ==
    /\ s \in minted
    /\ s \notin destroyed
    /\ activeStreams' = activeStreams \ {s}
    /\ sessions' = sessions \ {s}
    /\ httpDisconnections' = [httpDisconnections EXCEPT ![s] = @ + 1]
    /\ destroyed' = destroyed \cup {s}
    /\ lastEvent' = Event("other", 0, 0)
    /\ UNCHANGED <<orchVars, wsConnVars, wsOut, minted, pings, sseOut, pingTimers,
                   eventIdCounter, posts, reqs, initTimers, bcastLog>>

\* req.on("close") of the stream request: both listeners
HttpClose(s) ==
    /\ s \in minted
    /\ s \notin destroyed
    /\ activeStreams' = activeStreams \ {s}
    /\ sessions' = sessions \ {s}
    /\ httpDisconnections' = [httpDisconnections EXCEPT ![s] = @ + 1]
    /\ pingTimers' = pingTimers \ {s}
    /\ destroyed' = destroyed \cup {s}
    /\ lastEvent' = Event("other", 0, 0)
    /\ UNCHANGED <<orchVars, wsConnVars, wsOut, minted, pings, sseOut,
                   eventIdCounter, posts, reqs, initTimers, bcastLog>>

\* the setInterval callback of a session
HttpPing(s) ==
    /\ s \in pingTimers
    /\ pings < MaxPings
    /\ pings' = pings + 1
    /\ IF s \in destroyed
       THEN /\ pingTimers' = pingTimers \ {s}
            /\ UNCHANGED sseOut
       ELSE /\ sseOut' = [sseOut EXCEPT
                            ![s] = @ \o sendSSEMessage(s, SSEEvent("ping", EndpointData(0), 0))]
            /\ UNCHANGED pingTimers
    /\ lastEvent' = Event("other", 0, 0)
    /\ UNCHANGED <<orchVars, wsConnVars, wsOut, sessions, activeStreams, minted,
                   destroyed, eventIdCounter, posts, reqs, initTimers, bcastLog,
                   httpDisconnections>>

BatchEnvelopes(fresh) == { Envelope(id, "ping", "-") : id \in {NoId, fresh} }

PostBodies ==
    IF workload \in {"calls", "static", "ide"}
    THEN { JSONstringify(<<e>>) : e \in EnvelopeInputs(Len(reqs) + Len(posts) + 1) }
    ELSE {Malformed}
         \cup { JSONstringify(<<e>>) : e \in EnvelopeInputs(1) }
         \cup { JSONstringify(<<e1, e2>>) :
                  e1 \in BatchEnvelopes(1), e2 \in BatchEnvelopes(2) }

\* a handleMessages that only checks that a session_id parameter is present
handleMessages_anySession(sessionId, bodies) ==
    IF sessionId = NoSession
    THEN /\ lastEvent' = Event("post rejected", sessionId, 404)
         /\ UNCHANGED posts
    ELSE /\ Submissions < MsgBudget
         /\ \E body \in bodies :
               posts' = Append(posts, [sid |-> sessionId, body |-> body,
                                       known |-> sessionId \in sessions,
                                       pc |-> "reading", status |-> 0, resBody |-> "-"])
         /\ lastEvent' = Event("other", 0, 0)

\* McpHttpServer.handleMessages up to "await this.readRequestBody(req)": the
\* session is looked up first, the body (one of bodies) is read only after that
handleMessages(sessionId, bodies) ==
    IF sessionId = NoSession \/ sessionId \notin sessions
    THEN /\ lastEvent' = Event("post rejected", sessionId, 404)
         /\ UNCHANGED posts
    ELSE /\ Submissions < MsgBudget
         /\ \E body \in bodies :
               posts' = Append(posts, [sid |-> sessionId, body |-> body,
                                       known |-> sessionId \in sessions,
                                       pc |-> "reading", status |-> 0, resBody |-> "-"])
         /\ lastEvent' = Event("other", 0, 0)

HttpPost(sessionId) ==
    /\ httpListening
    /\ handleMessages(sessionId, PostBodies)
    /\ UNCHANGED <<orchVars, wsConnVars, wsOut, httpConnVars, pings, sseOut,
                   eventIdCounter, reqs, initTimers, bcastLog>>

IsRequest(msg) == msg.id # NoId            \* id !== undefined && method !== undefined
IsDispatchedRequest(msg) == msg.method # "" /\ msg.id # NoId
IsDispatchedNotification(msg) == msg.method # ""

RECURSIVE DispatchAll(_, _, _, _, _, _)
DispatchAll(st, sid, p, replyFn, msgs, scripts) ==
    IF msgs = <<>> THEN st
    ELSE DispatchAll(Dispatch(st, "http", sid, replyFn, p, Head(msgs), Head(scripts)),
                     sid, p, replyFn, Tail(msgs), Tail(scripts))

Answer(p, status, resBody) ==
    posts' = [posts EXCEPT ![p].pc = "done", ![p].status = status,
                           ![p].resBody = resBody]

\* McpHttpServer.handleMessages after the body has been read
handleMessagesBody(p, hasStream) ==
    LET sid == posts[p].sid
        parsed == JSONparse(posts[p].body)
        messages == parsed.value
        hasRequests == \E i \in 1..Len(messages) : IsRequest(messages[i])
        routed == IF hasRequests THEN SelectSeq(messages, IsDispatchedRequest)
                  ELSE SelectSeq(messages, IsDispatchedNotification)
        replyFn == IF hasRequests THEN "sse" ELSE HttpNotificationReply
    IN  IF ~parsed.ok
        THEN /\ Answer(p, 400, "Invalid JSON")
             /\ UNCHANGED <<reqs, wsOut, sseOut, eventIdCounter, initTimers>>
        ELSE IF hasRequests /\ ~hasStream
        THEN /\ Answer(p, 410, "SSE connection lost")
             /\ UNCHANGED <<reqs, wsOut, sseOut, eventIdCounter, initTimers>>
        ELSE /\ \E scripts \in [1..Len(routed) -> HandlerScripts \cup LegacyScripts \cup CallScripts] :
                  /\ \A i \in 1..Len(routed) : scripts[i] \in ScriptChoices(routed[i], "http")
                  /\ LET st == DispatchAll(Cur, sid, p, replyFn, routed, scripts) IN
                      /\ reqs' = st.reqs
                      /\ wsOut' = st.wsOut
                      /\ sseOut' = st.sseOut
                      /\ eventIdCounter' = st.eventIdCounter
                      /\ initTimers' = st.initTimers
             /\ Answer(p, 202, "")

\* a stream lookup that finds a stream for every session id
FindStream_always(sessionId) == TRUE

\* Array.from(this.activeStreams).find((s) => s.sessionId === sessionId)
FindStream(sessionId) == sessionId \in activeStreams

HttpPostEnd(p) ==
    /\ p \in 1..Len(posts)
    /\ posts[p].pc = "reading"
    /\ handleMessagesBody(p, FindStream(posts[p].sid))
    /\ lastEvent' = Event("other", 0, 0)
    /\ UNCHANGED <<orchVars, wsConnVars, httpConnVars, pings, bcastLog>>

(* ------------------------------ broadcast ------------------------------ *)
\* a broadcast that does not look at the sockets' readyState
McpServer_broadcast_anyState(out, n) ==
    [c \in Conns |->
        IF c \in connectedClients
        THEN Append(out[c], WireNotification(n)) ELSE out[c]]

\* McpServer.broadcast
McpServer_broadcast(out, n) ==
    [c \in Conns |->
        IF c \in connectedClients /\ readyState[c] = "OPEN"
        THEN Append(out[c], WireNotification(n)) ELSE out[c]]

\* McpHttpServer.broadcast, with eventId the incremented counter
McpHttpServer_broadcast(out, n, eventId) ==
    [s \in SessionIds |->
        IF s \in activeStreams /\ s \notin destroyed
        THEN out[s] \o sendSSEMessage(s, SSEEvent("message", WireNotification(n), eventId))
        ELSE out[s]]

\* a broadcast that reuses the current id instead of incrementing the counter
McpDualServer_broadcast_staleId(n) ==
    /\ wsOut' = IF wsServer THEN McpServer_broadcast(wsOut, n) ELSE wsOut
    /\ sseOut' = IF httpServer THEN McpHttpServer_broadcast(sseOut, n, eventIdCounter)
                 ELSE sseOut
    /\ eventIdCounter' = eventIdCounter
    /\ bcastLog' = Append(bcastLog, [ws |-> {c \in Conns : readyState[c] = "OPEN"},
                                     http |-> minted \ destroyed])

\* McpDualServer.broadcast
McpDualServer_broadcast(n) ==
    /\ wsOut' = IF wsServer THEN McpServer_broadcast(wsOut, n) ELSE wsOut
    /\ sseOut' = IF httpServer THEN McpHttpServer_broadcast(sseOut, n, eventIdCounter + 1)
                 ELSE sseOut
    /\ eventIdCounter' = IF httpServer THEN eventIdCounter + 1 ELSE eventIdCounter
    /\ bcastLog' = Append(bcastLog, [ws |-> {c \in Conns : readyState[c] = "OPEN"},
                                     http |-> minted \ destroyed])

\* a workspace event (active-leaf-change, file-open, selectionchange) makes the
\* WorkspaceManager broadcast a selection_changed notification
Broadcast ==
    /\ startResult.status # "none"
    /\ Len(bcastLog) < MaxBroadcasts
    /\ McpDualServer_broadcast(Len(bcastLog) + 1)
    /\ lastEvent' = Event("other", 0, 0)
    /\ UNCHANGED <<orchVars, wsConnVars, httpConnVars, pings, posts, reqs, initTimers>>

\* broadcasts in a run: the workspace events, and one per pending timer
BroadcastBudget == IF workload = "any" THEN MaxBroadcasts ELSE MaxBroadcasts + MaxCalls

\* a delayed send that reaches the first connected client only
InitialContextTimer_firstClient ==
    /\ initTimers > 0
    /\ Len(bcastLog) < BroadcastBudget
    /\ initTimers' = initTimers - 1
    /\ wsOut' = [c \in Conns |->
                   IF /\ wsServer /\ c \in connectedClients /\ readyState[c] = "OPEN"
                      /\ \A d \in connectedClients : d >= c
                   THEN Append(wsOut[c], WireNotification(Len(bcastLog) + 1))
                   ELSE wsOut[c]]
    /\ sseOut' = [s \in SessionIds |->
                    IF /\ httpServer /\ s \in activeStreams /\ s \notin destroyed
                       /\ \A d \in activeStreams : d >= s
                    THEN sseOut[s] \o sendSSEMessage(s, SSEEvent("message",
                            WireNotification(Len(bcastLog) + 1), eventIdCounter + 1))
                    ELSE sseOut[s]]
    /\ eventIdCounter' = IF httpServer THEN eventIdCounter + 1 ELSE eventIdCounter
    /\ bcastLog' = Append(bcastLog, [ws |-> {c \in Conns : readyState[c] = "OPEN"},
                                     http |-> minted \ destroyed])
    /\ lastEvent' = Event("other", 0, 0)
    /\ UNCHANGED <<orchVars, wsConnVars, httpConnVars, pings, posts, reqs>>

\* the setTimeout of IdeHandler.handleInitialized fires: sendInitialContext
InitialContextTimer ==
    /\ initTimers > 0
    /\ Len(bcastLog) < BroadcastBudget
    /\ initTimers' = initTimers - 1
    /\ McpDualServer_broadcast(Len(bcastLog) + 1)
    /\ lastEvent' = Event("other", 0, 0)
    /\ UNCHANGED <<orchVars, wsConnVars, httpConnVars, pings, posts, reqs>>

(* --------------------------- getServerInfo ------------------------------ *)
\* a JavaScript value that is a number, or undefined
Defined(n) == [defined |-> TRUE, value |-> n]
Undefined == [defined |-> FALSE, value |-> 0]

\* wsServer.serverPort: McpServer declares no such property
McpServer_serverPort == Undefined

\* McpHttpServer.serverPort: the field port, 0 until the listen callback ran
McpHttpServer_serverPort ==
    Defined(IF startResult.httpPort # NoPort THEN startResult.httpPort ELSE 0)

\* McpDualServer.getServerInfo, its two ports
getServerInfo ==
    [wsPort |-> IF wsServer THEN McpServer_serverPort ELSE Undefined,
     httpPort |-> IF httpServer THEN McpHttpServer_serverPort ELSE Undefined]

(* ---------------------------- specification ---------------------------- *)
Next ==
    \/ \E wsFault \in WsFaults, httpFault \in HttpFaults :
          initializeMcpServer(wsFault, httpFault)
    \/ \E c \in Conns : WsConnect(c)
    \/ \E c \in Conns : WsClosing(c)
    \/ \E c \in Conns : WsError(c)
    \/ \E c \in Conns : WsClose(c)
    \/ \E c \in Conns : WsMessage(c)
    \/ \E t \in DOMAIN reqs : HandlerResume(t)
    \/ \E s \in SessionIds : HttpGet(s)
    \/ \E s \in SessionIds : HttpClose(s)
    \/ \E s \in SessionIds : HttpPing(s)
    \/ \E s \in {NoSession} \cup SessionIds : HttpPost(s)
    \/ \E p \in DOMAIN posts : HttpPostEnd(p)
    \/ Broadcast
    \/ InitialContextTimer

Spec == Init /\ [][Next]_vars


(* ------------- construction, configuration directory, lock file --------- *)
\* path.join on paths kept as sequences of segments
Join(dir, parts) == dir \o parts

\* the home directories the operating system reports when no variable is set
PasswdHome == "/home/u"
ProfileHome == "/users/u"

\* os.homedir()
homedir(e) ==
    IF e.platform = "win32"
    THEN << IF e.USERPROFILE # "" THEN e.USERPROFILE ELSE ProfileHome >>
    ELSE << IF e.HOME # "" THEN e.HOME ELSE PasswdHome >>

\* fs.existsSync
existsSync(fs, path) == path \in fs

\* a resolution that prefers the legacy directory to the modern one
getClaudeConfigDir_legacyFirst(e, fs) ==
    IF e.CLAUDE_CONFIG_DIR # "" THEN << e.CLAUDE_CONFIG_DIR >>
    ELSE LET homeDir == homedir(e)
             base == IF e.platform = "win32"
                     THEN (IF e.APPDATA # "" THEN << e.APPDATA >>
                           ELSE Join(homeDir, <<"AppData", "Roaming">>))
                     ELSE (IF e.XDG_CONFIG_HOME # "" THEN << e.XDG_CONFIG_HOME >>
                           ELSE Join(homeDir, <<".config">>))
             modernConfigDir == Join(base, <<"claude">>)
             legacyConfigDir == Join(homeDir, <<".claude">>)
         IN  IF existsSync(fs, legacyConfigDir) THEN legacyConfigDir
             ELSE modernConfigDir

\* getClaudeConfigDir
getClaudeConfigDir(e, fs) ==
    IF e.CLAUDE_CONFIG_DIR # "" THEN << e.CLAUDE_CONFIG_DIR >>
    ELSE LET homeDir == homedir(e)
             isWindows == e.platform = "win32"
         IN  IF isWindows
             THEN LET appDataDir == IF e.APPDATA # "" THEN << e.APPDATA >>
                                    ELSE Join(homeDir, <<"AppData", "Roaming">>)
                      modernConfigDir == Join(appDataDir, <<"claude">>)
                      legacyConfigDir == Join(homeDir, <<".claude">>)
                  IN  IF existsSync(fs, modernConfigDir) THEN modernConfigDir
                      ELSE IF existsSync(fs, legacyConfigDir) THEN legacyConfigDir
                      ELSE modernConfigDir
             ELSE LET xdgConfigHome == IF e.XDG_CONFIG_HOME # "" THEN << e.XDG_CONFIG_HOME >>
                                       ELSE Join(homeDir, <<".config">>)
                      modernConfigDir == Join(xdgConfigHome, <<"claude">>)
                      legacyConfigDir == Join(homeDir, <<".claude">>)
                  IN  IF existsSync(fs, modernConfigDir) THEN modernConfigDir
                      ELSE IF existsSync(fs, legacyConfigDir) THEN legacyConfigDir
                      ELSE modernConfigDir

\* getClaudeIdeDir
getClaudeIdeDir(e, fs) == Join(getClaudeConfigDir(e, fs), <<"ide">>)

\* fs.mkdirSync(dir, { recursive: true })
mkdirSync(fs, dir) == fs \cup { SubSeq(dir, 1, k) : k \in 1..Len(dir) }

\* fs.unlinkSync: throws ENOENT on a path that does not exist
unlinkSync(fs, path) ==
    IF path \in fs THEN [threw |-> FALSE, files |-> fs \ {path}]
    ELSE [threw |-> TRUE, files |-> fs]

\* `${port}.lock`
LockFileName(port) == ToString(port) \o ".lock"

\* McpServer.createLockFile; failsAt names the file-system call that throws
createLockFile(e, fs, port, failsAt) ==
    LET home == IF e.HOME # "" THEN e.HOME
                ELSE IF e.USERPROFILE # "" THEN e.USERPROFILE ELSE "."
        ideDir == Join(<<home>>, <<".claude", "ide">>)
        path == Join(ideDir, << LockFileName(port) >>)
    IN  IF failsAt = "mkdir"
        THEN [threw |-> TRUE, files |-> fs, lockFilePath |-> NoPath, written |-> {}]
        ELSE IF failsAt = "write"
        THEN [threw |-> TRUE, files |-> mkdirSync(fs, ideDir), lockFilePath |-> path,
              written |-> {}]
        ELSE [threw |-> FALSE, files |-> mkdirSync(fs, ideDir) \cup {path},
              lockFilePath |-> path, written |-> {path}]

\* a start that writes the lock file before it looks at the listener
McpServer_startFiles_lockFirst(e, fs, fault, failsAt) ==
    LET r == McpServer_start(fault)
        l == createLockFile(e, fs, EphemeralPort, "none")
    IN  [wss |-> IF r.listening THEN "listening" ELSE "failed",
         files |-> l.files, lockFilePath |-> l.lockFilePath, written |-> l.written,
         threw |-> r.threw]

\* McpServer.start, what it leaves in the file system: wss.address() is null
\* when the listener did not bind, so reading its port throws before
\* createLockFile is reached
McpServer_startFiles(e, fs, fault, failsAt) ==
    LET r == McpServer_start(fault) IN
    IF ~r.listening
    THEN [wss |-> "failed", files |-> fs, lockFilePath |-> NoPath, written |-> {},
          threw |-> TRUE]
    ELSE LET l == createLockFile(e, fs, EphemeralPort,
                                 IF fault = "EACCES" THEN failsAt ELSE "none")
         IN  [wss |-> "listening", files |-> l.files, lockFilePath |-> l.lockFilePath,
              written |-> l.written, threw |-> l.threw]

\* an updateWorkspaceFolders that writes the record without asking whether the
\* file exists
McpServer_updateWorkspaceFolders_creating(fs, lockPath, content, basePath) ==
    IF lockPath # NoPath
    THEN [files |-> fs \cup {lockPath},
          content |-> [content EXCEPT !.workspaceFolders = <<basePath>>]]
    ELSE [files |-> fs, content |-> content]

\* McpServer.updateWorkspaceFolders: read the record, replace workspaceFolders,
\* write it back to the same path
McpServer_updateWorkspaceFolders(fs, lockPath, content, basePath) ==
    IF lockPath # NoPath /\ existsSync(fs, lockPath)
    THEN [files |-> fs, content |-> [content EXCEPT !.workspaceFolders = <<basePath>>]]
    ELSE [files |-> fs, content |-> content]

\* McpDualServer.updateWorkspaceFolders: forwards when wsServer is set
McpDualServer_updateWorkspaceFolders(hasWsServer, fs, lockPath, content, basePath) ==
    IF hasWsServer THEN McpServer_updateWorkspaceFolders(fs, lockPath, content, basePath)
    ELSE [files |-> fs, content |-> content]

\* a stop that unlinks the lock file without asking whether it exists
McpServer_stop_unchecked(fs, lockPath) ==
    IF lockPath # NoPath THEN unlinkSync(fs, lockPath)
    ELSE [threw |-> FALSE, files |-> fs]

\* McpServer.stop, what it does to the file system
McpServer_stop(fs, lockPath) ==
    IF lockPath # NoPath /\ existsSync(fs, lockPath) THEN unlinkSync(fs, lockPath)
    ELSE [threw |-> FALSE, files |-> fs]

\* a register that stores whatever pair it is given
register_unchecked(registry, definition, implementation) ==
    [threw |-> FALSE,
     tools |-> [n \in DOMAIN registry \cup {definition.name} |->
                  IF n = definition.name
                  THEN [definition |-> definition, implementation |-> implementation]
                  ELSE registry[n]]]

\* ToolRegistry.register
register(registry, definition, implementation) ==
    IF definition.name # implementation.name
    THEN [threw |-> TRUE, tools |-> registry]
    ELSE [threw |-> FALSE,
          tools |-> [n \in DOMAIN registry \cup {definition.name} |->
                       IF n = definition.name
                       THEN [definition |-> definition, implementation |-> implementation]
                       ELSE registry[n]]]

\* the modern and the legacy directory getClaudeConfigDir looks at
ModernConfigDir(e) ==
    IF e.platform = "win32"
    THEN Join(IF e.APPDATA # "" THEN << e.APPDATA >>
              ELSE Join(homedir(e), <<"AppData", "Roaming">>), <<"claude">>)
    ELSE Join(IF e.XDG_CONFIG_HOME # "" THEN << e.XDG_CONFIG_HOME >>
              ELSE Join(homedir(e), <<".config">>), <<"claude">>)
LegacyConfigDir(e) == Join(homedir(e), <<".claude">>)

\* the environments and file systems the plugin may be loaded in
Envs ==
    [CLAUDE_CONFIG_DIR : {"", "/custom"}, XDG_CONFIG_HOME : {"", "/xdg"},
     APPDATA : {"", "/appdata"}, HOME : {"", "/home/u"},
     USERPROFILE : {"", "/users/u"}, platform : {"linux", "win32"}]

\* the lock file of another running instance
OtherPort == 51235
InitialFiles(e) ==
    { (IF m THEN mkdirSync({}, ModernConfigDir(e)) ELSE {})
      \cup (IF l THEN mkdirSync({}, LegacyConfigDir(e)) ELSE {})
      \cup (IF o THEN createLockFile(e, {}, OtherPort, "none").files ELSE {})
      : m \in BOOLEAN, l \in BOOLEAN, o \in BOOLEAN }

\* the arrays registerTools walks: general tools first, then IDE tools
ToolNames == GeneralToolNames \cup IdeToolNames
ImplementationNames == ToolNames \cup {"missing"}
Registered(name) == name \in DOMAIN tools.ws
NextDefinition ==
    IF \E n \in GeneralToolNames : ~Registered(n)
    THEN CHOOSE n \in GeneralToolNames : ~Registered(n)
    ELSE CHOOSE n \in IdeToolNames : ~Registered(n)

Setup(op, threw, d, i) ==
    [op |-> op, threw |-> threw, definition |-> d, implementation |-> i]

\* one iteration of a loop of McpDualServer.registerTools; impl is the name of
\* the implementation createImplementations() put at the definition's index
RegisterTool(impl) ==
    /\ phase = "constructing"
    /\ \E n \in ToolNames : ~Registered(n)
    /\ LET d == NextDefinition
           definition == [name |-> d]
           implementation == [name |-> impl]
           w == register(tools.ws, definition, implementation)
           h == IF d \in GeneralToolNames
                THEN register(tools.http, definition, implementation)
                ELSE [threw |-> FALSE, tools |-> tools.http]
       IN  IF impl = "missing" \/ definition.name # implementation.name
              \/ w.threw \/ h.threw
           THEN /\ phase' = "failed"
                /\ lastSetup' = Setup("registerTools", TRUE, d, impl)
                /\ UNCHANGED tools
           ELSE /\ phase' = phase
                /\ lastSetup' = Setup("registerTools", FALSE, d, impl)
                /\ tools' = [ws |-> w.tools, http |-> h.tools]
    /\ UNCHANGED <<processEnv, files, lockFilePath, wss, written, lockContent,
                   ideDirAtStart, resolved>>
    /\ UNCHANGED serveVars

\* ToolRegistry.register applied to a registry of its own, with any pair of
\* names; the registries of the orchestrator are filled by RegisterTool only
RegisterCall(d, impl) ==
    /\ phase = "constructing"
    /\ LET r == register(<<>>, [name |-> d], [name |-> impl])
       IN  lastSetup' = Setup("register", r.threw, d,
                              IF r.threw \/ d \notin DOMAIN r.tools THEN impl
                              ELSE r.tools[d].implementation.name)
    /\ UNCHANGED <<processEnv, files, lockFilePath, wss, written, lockContent,
                   ideDirAtStart, resolved, tools, phase>>
    /\ UNCHANGED serveVars

\* the constructor of McpDualServer returns once registerTools has returned
ConstructorReturns ==
    /\ phase = "constructing"
    /\ \A n \in ToolNames : Registered(n)
    /\ phase' = "constructed"
    /\ lastSetup' = Setup("constructor", FALSE, "-", "-")
    /\ UNCHANGED <<processEnv, files, lockFilePath, wss, written, lockContent,
                   ideDirAtStart, resolved, tools>>
    /\ UNCHANGED serveVars

LockFaults == {"mkdir", "write"}

\* the WebSocket half of McpDualServer.start: McpServer.start, then
\* updateWorkspaceFolders, which rewrites the lock file in place
StartServer(fault, failsAt) ==
    /\ phase = "constructed"
    /\ LET r == McpServer_startFiles(processEnv, files, fault, failsAt)
           created == IF r.written # {} THEN LockRecord(<<>>) ELSE NoRecord
       IN  /\ wss' = r.wss
           /\ files' = r.files
           /\ lockFilePath' = r.lockFilePath
           /\ written' = r.written
           /\ lockContent' =
                 IF r.threw THEN created
                 ELSE McpServer_updateWorkspaceFolders(r.files, r.lockFilePath, created,
                                                       "/vault").content
           /\ lastSetup' = Setup("start", r.threw, "-", "-")
    /\ ideDirAtStart' = getClaudeIdeDir(processEnv, files)
    /\ phase' = "started"
    /\ UNCHANGED <<processEnv, resolved, tools>>
    /\ UNCHANGED serveVars

\* McpDualServer.stop: McpServer.stop on the server start() created
StopServer ==
    /\ phase = "started"
    /\ LET r == McpServer_stop(files, lockFilePath)
       IN  /\ files' = r.files
           /\ lockContent' = IF lockFilePath \in r.files THEN lockContent ELSE NoRecord
           /\ lastSetup' = Setup("stop", r.threw, "-", "-")
    /\ wss' = IF wss = "listening" THEN "closed" ELSE wss
    /\ phase' = "stopped"
    /\ UNCHANGED <<processEnv, lockFilePath, written, ideDirAtStart, resolved, tools>>
    /\ UNCHANGED serveVars

\* somebody else deletes the lock file while the server runs
ExternalUnlink ==
    /\ phase = "started"
    /\ lockFilePath \in files
    /\ files' = files \ {lockFilePath}
    /\ lockContent' = NoRecord
    /\ lastSetup' = Setup("unlink", FALSE, "-", "-")
    /\ UNCHANGED <<processEnv, lockFilePath, wss, written, ideDirAtStart, resolved, tools,
                   phase>>
    /\ UNCHANGED serveVars

\* the workspace root changed: McpDualServer.updateWorkspaceFolders(basePath);
\* wsServer is set from start() to stop()
UpdateWorkspaceFolders(basePath) ==
    /\ phase \in {"constructed", "started", "stopped"}
    /\ LET r == McpDualServer_updateWorkspaceFolders(phase = "started", files, lockFilePath,
                                                     lockContent, basePath)
       IN  /\ files' = r.files
           /\ lockContent' = r.content
    /\ lastSetup' = Setup("update", FALSE, basePath, "-")
    /\ UNCHANGED <<processEnv, lockFilePath, wss, written, ideDirAtStart, resolved, tools,
                   phase>>
    /\ UNCHANGED serveVars

\* the settings tab asks for the configuration directory
ResolveConfigDir ==
    /\ ~resolved.called
    /\ resolved' = [called |-> TRUE, dir |-> getClaudeConfigDir(processEnv, files),
                    modernExisted |-> existsSync(files, ModernConfigDir(processEnv)),
                    legacyExisted |-> existsSync(files, LegacyConfigDir(processEnv))]
    /\ lastSetup' = Setup("resolve", FALSE, "-", "-")
    /\ UNCHANGED <<processEnv, files, lockFilePath, wss, written, lockContent,
                   ideDirAtStart, tools,
                   phase>>
    /\ UNCHANGED serveVars

SetupInit ==
    /\ ServeInit
    /\ config = [enableWebSocket |-> TRUE, enableHttp |-> TRUE]
    /\ processEnv \in Envs
    /\ files \in InitialFiles(processEnv)
    /\ SetupIdle
    /\ workload = "any"

SetupNext ==
    \/ \E impl \in ImplementationNames : RegisterTool(impl)
    \/ \E d \in ToolNames, impl \in ToolNames : RegisterCall(d, impl)
    \/ ConstructorReturns
    \/ \E fault \in WsFaults, failsAt \in LockFaults : StartServer(fault, failsAt)
    \/ StopServer
    \/ ExternalUnlink
    \/ \E basePath \in BasePaths : UpdateWorkspaceFolders(basePath)
    \/ ResolveConfigDir

SetupSpec == SetupInit /\ [][SetupNext]_vars

(* ------------------- HTTP server: routing and stop --------------------- *)
HttpMethods == {"GET", "POST"}
Pathnames == {"/sse", "/messages", "/mcp"}

\* McpHttpServer.handleRequest: the handler a request is routed to, or the
\* status the router answers itself
McpHttpServer_handleRequest(method, pathname) ==
    IF pathname = "/sse"
    THEN (IF method = "GET" THEN [handler |-> "handleSSEConnection", status |-> 0]
          ELSE [handler |-> "none", status |-> 405])
    ELSE IF pathname = "/messages"
    THEN (IF method = "POST" THEN [handler |-> "handleMessages", status |-> 0]
          ELSE [handler |-> "none", status |-> 405])
    ELSE [handler |-> "none", status |-> 404]

\* a request the router answers itself; nothing else happens
HttpUnrouted(method, pathname) ==
    /\ httpListening
    /\ LET r == McpHttpServer_handleRequest(method, pathname) IN
        /\ r.handler = "none"
        /\ lastEvent' = Event(pathname, 0, r.status)
    /\ UNCHANGED <<orchVars, wsConnVars, wsOut, httpConnVars, pings, sseOut,
                   eventIdCounter, posts, reqs, initTimers, bcastLog>>

\* McpHttpServer.clientCount
McpHttpServer_clientCount == Cardinality(activeStreams)

\* a stop that clears the active streams and leaves the session table alone
McpDualServer_stop_keepsSessions ==
    /\ httpServer
    /\ ~wsServer
    /\ ended' = ended \cup activeStreams
    /\ activeStreams' = {}
    /\ sessions' = sessions
    /\ httpServer' = FALSE
    /\ httpListening' = FALSE
    /\ lastEvent' = Event("stop", 0, 0)
    /\ UNCHANGED <<config, wsServer, wsListening, listenHost, workload, startResult, faults,
                   notice,
                   setupVars,
                   wsConnVars, wsOut, minted, destroyed, pingTimers, httpDisconnections,
                   pings, sseOut,
                   eventIdCounter, posts, reqs, initTimers, bcastLog>>

\* McpDualServer.stop of an orchestrator that runs the HTTP server only:
\* McpHttpServer.stop ends every active stream, clears both tables and closes
\* the listener; the ping intervals stay armed
McpDualServer_stop ==
    /\ httpServer
    /\ ~wsServer
    /\ ended' = ended \cup activeStreams
    /\ activeStreams' = {}
    /\ sessions' = {}
    /\ httpServer' = FALSE
    /\ httpListening' = FALSE
    /\ lastEvent' = Event("stop", 0, 0)
    /\ UNCHANGED <<config, wsServer, wsListening, listenHost, workload, startResult, faults,
                   notice,
                   setupVars,
                   wsConnVars, wsOut, minted, destroyed, pingTimers, httpDisconnections,
                   pings, sseOut,
                   eventIdCounter, posts, reqs, initTimers, bcastLog>>

HttpInit ==
    /\ Init
    /\ config = [enableWebSocket |-> FALSE, enableHttp |-> TRUE]

HttpNext ==
    \/ \E wsFault \in WsFaults, httpFault \in HttpFaults :
          initializeMcpServer(wsFault, httpFault)
    \/ \E t \in DOMAIN reqs : HandlerResume(t)
    \/ \E s \in SessionIds : HttpGet(s)
    \/ \E s \in SessionIds : HttpClose(s)
    \/ \E s \in SessionIds : HttpPing(s)
    \/ \E s \in {NoSession} \cup SessionIds : HttpPost(s)
    \/ \E p \in DOMAIN posts : HttpPostEnd(p)
    \/ \E method \in HttpMethods, pathname \in Pathnames : HttpUnrouted(method, pathname)
    \/ McpDualServer_stop
    \/ Broadcast
    \/ InitialContextTimer

HttpSpec == HttpInit /\ [][HttpNext]_vars

(* --------------------- concurrent calls on both transports -------------- *)
CallInit ==
    /\ processEnv = PlainEnv
    /\ files = {}
    /\ SetupIdle
    /\ ServeInit
    /\ config = [enableWebSocket |-> TRUE, enableHttp |-> TRUE]
    /\ workload = "calls"

CallNext ==
    \/ initializeMcpServer("none", "none")
    \/ \E c \in Conns : WsConnect(c)
    \/ \E c \in Conns : WsClosing(c)
    \/ \E c \in Conns : WsError(c)
    \/ \E c \in Conns : WsClose(c)
    \/ \E c \in Conns : WsMessage(c)
    \/ \E t \in DOMAIN reqs : HandlerResume(t)
    \/ \E s \in SessionIds : HttpGet(s)
    \/ \E s \in SessionIds : HttpClose(s)
    \/ \E s \in SessionIds : HttpPost(s)
    \/ \E p \in DOMAIN posts : HttpPostEnd(p)

CallSpec == CallInit /\ [][CallNext]_vars

(* ------------------------- plugin life cycle ---------------------------- *)
\* McpDualServer.start of a fresh orchestrator: the WebSocket listener takes a
\* free port and writes its discovery record; the HTTP listener binds the
\* configured port unless another listener holds it (EADDRINUSE)
StartInstance(settings, portBusy) ==
    [ws |-> settings.enableWebSocketServer,
     http |-> settings.enableHttpServer /\ ~portBusy]

\* McpDualServer.stop: both listeners closed, the discovery record unlinked
StopInstance(inst) == [ws |-> FALSE, http |-> FALSE]

\* an orchestrator with a bound listener or a discovery record
Running(inst) == inst.ws \/ inst.http

\* this.mcpServer?.stop()
StopCurrent(pl) ==
    IF pl.mcpServer = 0 THEN pl
    ELSE [pl EXCEPT !.instances[pl.mcpServer] = StopInstance(@)]

\* ClaudeMcpPlugin.initializeMcpServer: this.mcpServer = new McpDualServer(...),
\* then start(); a failed start leaves this.mcpServer assigned
PluginInitialize(pl) ==
    LET busy == \E i \in DOMAIN pl.instances : pl.instances[i].http
        inst == StartInstance(pl.settings, busy)
    IN  [pl EXCEPT !.instances = Append(@, inst), !.mcpServer = Len(pl.instances) + 1]

PluginStep(pl) ==
    /\ plugin' = pl
    /\ UNCHANGED <<serveOwn, setupOwn, vault>>

\* ClaudeMcpPlugin.onload
PluginLoad ==
    /\ ~plugin.loaded
    /\ PluginStep([PluginInitialize(plugin) EXCEPT !.loaded = TRUE])

\* a toggle of the settings tab: the setting flips, then restartMcpServer runs
\* up to its 500 ms wait: the current orchestrator is stopped
ToggleRestart(setting) ==
    /\ plugin.loaded
    /\ ~plugin.unloaded
    /\ plugin.restarts < MaxRestarts
    /\ PluginStep([StopCurrent(plugin) EXCEPT !.settings[setting] = ~@,
                                              !.delays = @ + 1,
                                              !.restarts = @ + 1])

\* the wait of a restartMcpServer is over: initializeMcpServer
RestartResume ==
    /\ plugin.delays > 0
    /\ PluginStep([PluginInitialize(plugin) EXCEPT !.delays = @ - 1])

\* ClaudeMcpPlugin.onunload
PluginUnload ==
    /\ plugin.loaded
    /\ ~plugin.unloaded
    /\ PluginStep([StopCurrent(plugin) EXCEPT !.unloaded = TRUE])

PluginInit == Init

PluginNext ==
    \/ PluginLoad
    \/ \E setting \in {"enableWebSocketServer", "enableHttpServer"} : ToggleRestart(setting)
    \/ RestartResume
    \/ PluginUnload

\* a timer that was set fires, and the plugin is unloaded in the end
PluginFairSpec ==
    PluginInit /\ [][PluginNext]_vars /\ WF_vars(RestartResume) /\ WF_vars(PluginUnload)

(* ----------------------------- create tool ------------------------------ *)
CreateTexts == {"x", "y"}

\* tools/call create reaches the handler with valid arguments: it starts to
\* read the path
CreateCall(tr, path, text) ==
    /\ Len(vault.calls) < MaxCreates
    /\ vault' = [vault EXCEPT !.calls = Append(@,
                    [tr |-> tr, path |-> path, text |-> text, pc |-> "reading",
                     outcome |-> "-", overwrote |-> FALSE])]
    /\ UNCHANGED <<serveOwn, setupOwn, plugin>>

\* await adapter.read(path) settled: resolved means the file exists and the
\* handler replies the error; rejected means it goes on to write
CreateRead(i) ==
    /\ vault.calls[i].pc = "reading"
    /\ vault' = IF vault.content[vault.calls[i].path] # NoFile
                THEN [vault EXCEPT !.calls[i].pc = "done", !.calls[i].outcome = "exists"]
                ELSE [vault EXCEPT !.calls[i].pc = "writing"]
    /\ UNCHANGED <<serveOwn, setupOwn, plugin>>

\* await adapter.write(path, file_text) settled: the handler replies success
CreateWrite(i) ==
    /\ vault.calls[i].pc = "writing"
    /\ vault' = [vault EXCEPT !.content[vault.calls[i].path] = vault.calls[i].text,
                              !.calls[i].pc = "done",
                              !.calls[i].outcome = "created",
                              !.calls[i].overwrote =
                                  vault.content[vault.calls[i].path] # NoFile]
    /\ UNCHANGED <<serveOwn, setupOwn, plugin>>

VaultInit == Init

VaultNext ==
    \/ \E tr \in {"ws", "http"}, path \in VaultPaths, text \in CreateTexts :
          CreateCall(tr, path, text)
    \/ \E i \in DOMAIN vault.calls : CreateRead(i)
    \/ \E i \in DOMAIN vault.calls : CreateWrite(i)

VaultSpec == VaultInit /\ [][VaultNext]_vars

(* ------------- the static methods, on both transports ------------------- *)
StaticInit ==
    /\ processEnv = PlainEnv
    /\ files = {}
    /\ SetupIdle
    /\ ServeInit
    /\ config = [enableWebSocket |-> TRUE, enableHttp |-> TRUE]
    /\ workload = "static"

StaticNext ==
    \/ initializeMcpServer("none", "none")
    \/ \E c \in Conns : WsConnect(c)
    \/ \E c \in Conns : WsMessage(c)
    \/ \E s \in SessionIds : HttpGet(s)
    \/ \E s \in SessionIds : HttpPost(s)
    \/ \E p \in DOMAIN posts : HttpPostEnd(p)

StaticSpec == StaticInit /\ [][StaticNext]_vars

(* ----------- the IDE notifications and the delayed first send ----------- *)
IdeInit ==
    /\ processEnv = PlainEnv
    /\ files = {}
    /\ SetupIdle
    /\ ServeInit
    /\ config.enableHttp
    /\ workload = "ide"

IdeNext ==
    \/ initializeMcpServer("none", "none")
    \/ \E c \in Conns : WsConnect(c)
    \/ \E c \in Conns : WsClose(c)
    \/ \E c \in Conns : WsMessage(c)
    \/ \E s \in SessionIds : HttpGet(s)
    \/ \E s \in SessionIds : HttpClose(s)
    \/ \E s \in SessionIds : HttpPost(s)
    \/ \E p \in DOMAIN posts : HttpPostEnd(p)
    \/ McpDualServer_stop
    \/ InitialContextTimer

\* a timer that was set fires: nothing clears it, not even stop()
IdeFairSpec == IdeInit /\ [][IdeNext]_vars /\ WF_vars(InitialContextTimer)

\* the event loop runs every continuation whose awaited promise has settled
CallFairness == \A t \in 1..MaxCalls : WF_vars(HandlerResume(t))
CallFairSpec == CallSpec /\ CallFairness


(* ------------------------- what the clients saw ------------------------ *)
\* positions of the Responses to request t in what was sent on socket c
WsResponses(c, t) ==
    {i \in DOMAIN wsOut[c] : wsOut[c][i].kind = "response" /\ wsOut[c][i].re = t}

\* positions of the message events on stream s that carry a Response to request t
SseResponses(s, t) ==
    {i \in DOMAIN sseOut[s] : /\ sseOut[s][i].event = "message"
                              /\ sseOut[s][i].data.kind = "response"
                              /\ sseOut[s][i].data.re = t}

\* every Response to request t, wherever it was written
ResponsesTo(t) ==
    UNION {{<<"ws", c, i>> : i \in WsResponses(c, t)} : c \in Conns}
    \cup UNION {{<<"http", s, i>> : i \in SseResponses(s, t)} : s \in SessionIds}

\* the connection or stream a request arrived on is still open
ChannelOpen(r) ==
    IF r.tr = "ws" THEN readyState[r.ch] = "OPEN"
    ELSE r.ch \in sessions /\ r.ch \notin destroyed

\* a Response with the id of request t was written on the channel t arrived on
AnsweredOnOrigin(t) ==
    LET r == reqs[t] IN
    IF r.tr = "ws"
    THEN \E i \in WsResponses(r.ch, t) : wsOut[r.ch][i].id = r.id
    ELSE \E i \in SseResponses(r.ch, t) : sseOut[r.ch][i].data.id = r.id

\* the envelopes of an accepted POST whose body parsed
PostMessages(p) ==
    IF posts[p].body.json THEN posts[p].body.value ELSE <<>>

\* the router's record of the i-th envelope of POST p, if it was dispatched
PostTokens(p, id) ==
    {t \in DOMAIN reqs : reqs[t].tr = "http" /\ reqs[t].post = p /\ reqs[t].id = id}

(* ------------------- C1: every request gets a Response ------------------ *)
\* C1: every request (an envelope with an id and a method) that arrived on a
\* persistent-socket connection, or was POSTed to an open session, has received
\* a Response carrying its id on the connection it arrived on once its handler
\* has run to completion, as long as that connection is still open.  This holds
\* for every method string.  (The finite-run form of "eventually answered".)
C1_EveryRequestAnswered ==
    /\ \A t \in DOMAIN reqs :
          (reqs[t].tr = "ws" /\ reqs[t].id # NoId /\ reqs[t].pc = "done"
           /\ ChannelOpen(reqs[t]))
          => AnsweredOnOrigin(t)
    /\ \A p \in DOMAIN posts : \A i \in DOMAIN PostMessages(p) :
          LET id == PostMessages(p)[i].id
              sid == posts[p].sid
          IN  (/\ id # NoId
               /\ posts[p].pc = "done"
               /\ posts[p].status = 202
               /\ \A t \in PostTokens(p, id) : reqs[t].pc = "done"
               /\ sid \in sessions /\ sid \notin destroyed)
              => \E t \in PostTokens(p, id) : AnsweredOnOrigin(t)

(* ------------------ C2: at most one Response per request ---------------- *)
\* C2: no request ever has more than one Response written for it, on any
\* connection, whatever its tool handler did (replied several times, threw
\* before replying, threw after replying).
C2_AtMostOneResponse ==
    \A t \in DOMAIN reqs :
        reqs[t].id # NoId => Cardinality(ResponsesTo(t)) <= 1

(* ----------------- C3: notifications are never answered ----------------- *)
\* C3: a notification (an envelope with a method and no id) never causes a
\* Response to be written, on either transport, whatever its method.
C3_NotificationNeverAnswered ==
    \A t \in DOMAIN reqs :
        reqs[t].id = NoId => ResponsesTo(t) = {}

(* ------------------ C4: an unparseable socket frame --------------------- *)
\* the methods the router answers itself, without a handler
FixedMethods == {"initialize", "tools/list", "ping"}

\* the step that received an unparseable frame left every output, the router's
\* records, the socket and the connected-clients set as they were
MalformedFrameIgnored ==
    lastEvent'.kind = "ws malformed"
    => /\ wsOut' = wsOut
       /\ sseOut' = sseOut
       /\ reqs' = reqs
       /\ eventIdCounter' = eventIdCounter
       /\ readyState' = readyState
       /\ connectedClients' = connectedClients

\* a request for a fixed method that followed an unparseable frame on the same
\* connection was answered on that connection
AnsweredAfterMalformed ==
    \A t \in DOMAIN reqs :
        (reqs[t].afterMalformed /\ reqs[t].id # NoId /\ reqs[t].method \in FixedMethods)
        => AnsweredOnOrigin(t)

\* C4: a persistent-socket frame that is not valid JSON sends nothing on any
\* connection, does not invoke the router, does not close the connection and
\* leaves the connected-clients set unchanged; a well-formed request that
\* follows on the same connection is still answered.
C4_MalformedFrameDropped == [][MalformedFrameIgnored]_vars /\ []AnsweredAfterMalformed

\* a ping request that followed an unparseable frame on the same, still
\* connected socket has its pong
C4_Witness ==
    \E t \in DOMAIN reqs :
        /\ reqs[t].afterMalformed /\ reqs[t].id # NoId /\ reqs[t].method = "ping"
        /\ reqs[t].ch \in connectedClients
        /\ \E i \in WsResponses(reqs[t].ch, t) : wsOut[reqs[t].ch][i].result = "pong"

(* --------------------------- C5: broadcast ----------------------------- *)
\* how many copies of broadcast n were sent on socket c / written on stream s
WsCopies(c, n) ==
    Cardinality({i \in DOMAIN wsOut[c] : wsOut[c][i] = WireNotification(n)})

SseCopies(s, n) ==
    Cardinality({i \in DOMAIN sseOut[s] : /\ sseOut[s][i].event = "message"
                                          /\ sseOut[s][i].data = WireNotification(n)})

\* C5: a broadcast made while N clients have an open connection (sockets and
\* streams together) delivered the same payload exactly once to each of those
\* N clients and to nobody else; a client that connected later has no copy.
C5_BroadcastExactlyOnce ==
    \A n \in DOMAIN bcastLog :
        /\ \A c \in Conns : WsCopies(c, n) = IF c \in bcastLog[n].ws THEN 1 ELSE 0
        /\ \A s \in SessionIds : SseCopies(s, n) = IF s \in bcastLog[n].http THEN 1 ELSE 0

\* a broadcast reached the one socket open at the time, and a stream that was
\* opened afterwards is open now without a copy
C5_Witness ==
    \E n \in DOMAIN bcastLog :
        /\ bcastLog[n].ws # {}
        /\ \A c \in bcastLog[n].ws : WsCopies(c, n) = 1
        /\ \E s \in sessions : s \notin bcastLog[n].http /\ SseCopies(s, n) = 0

(* --------------- C6: the HTTP port is already in use -------------------- *)
\* start() ran with the HTTP port bound by another process and the
\* persistent-socket bind succeeding
HttpPortBusyOnly ==
    /\ startResult.status # "none"
    /\ config.enableWebSocket /\ config.enableHttp
    /\ faults.ws = "none" /\ faults.http = "EADDRINUSE"

RequestPostAnswered(p) ==
    /\ posts[p].pc = "done"
    /\ \E i \in DOMAIN PostMessages(p) : PostMessages(p)[i].id # NoId
    /\ posts[p].sid \in sessions /\ posts[p].sid \in activeStreams

\* C7: a request POSTed with session_id = s while the stream of s is open is
\* answered with an empty 202, and once its handler has run its Response has
\* been delivered as a message event on stream s and on no other stream.
C7_ResponseOnOwnStream ==
    \A p \in DOMAIN posts :
        RequestPostAnswered(p)
        => /\ posts[p].status = 202 /\ posts[p].resBody = ""
           /\ \A i \in DOMAIN PostMessages(p) :
                LET id == PostMessages(p)[i].id IN
                (id # NoId /\ \A t \in PostTokens(p, id) : reqs[t].pc = "done")
                => /\ \E t \in PostTokens(p, id) : SseResponses(posts[p].sid, t) # {}
                   /\ \A t \in PostTokens(p, id) :
                        \A s \in SessionIds \ {posts[p].sid} : SseResponses(s, t) = {}

(* ------------ C8: a notification POSTed to an open session -------------- *)
\* an accepted POST whose body is one notification has been answered
NotificationPostAnswered(p) ==
    /\ posts[p].pc = "done"
    /\ Len(PostMessages(p)) = 1
    /\ PostMessages(p)[1].id = NoId

\* C8: a POST carrying a single notification to an open session is answered
\* 202, and no message event is written on any stream as a reply to it.
C8_NotificationPostSilent ==
    \A p \in DOMAIN posts :
        NotificationPostAnswered(p)
        => /\ posts[p].status = 202
           /\ \A t \in DOMAIN reqs :
                (reqs[t].tr = "http" /\ reqs[t].post = p) => ResponsesTo(t) = {}

\* a ping notification was POSTed to a session whose stream is still open, was
\* dispatched to the router and was answered 202
C8_Witness ==
    \E p \in DOMAIN posts :
        /\ NotificationPostAnswered(p)
        /\ PostMessages(p)[1].method = "ping"
        /\ posts[p].status = 202
        /\ posts[p].sid \in activeStreams
        /\ \E t \in DOMAIN reqs : reqs[t].tr = "http" /\ reqs[t].post = p

(* ------------ C10: a POST without a known session id -------------------- *)
\* the step that received a POST with a missing or unknown session_id answered
\* with an error status and left the router's records, every stream, the
\* session table, the active streams and the event-id counter as they were
UnknownSessionRejected ==
    lastEvent'.kind = "post rejected"
    => /\ lastEvent'.status >= 400
       /\ reqs' = reqs
       /\ posts' = posts
       /\ sseOut' = sseOut
       /\ wsOut' = wsOut
       /\ sessions' = sessions
       /\ activeStreams' = activeStreams
       /\ eventIdCounter' = eventIdCounter

\* every POST that got past the session check named a session of the table
AcceptedPostsKnown ==
    \A p \in DOMAIN posts : posts[p].sid # NoSession /\ posts[p].known

\* C10: a POST whose session_id is missing or names no live session is
\* answered with an error status, dispatches nothing, writes no event on any
\* stream and leaves the session table, the active-stream set and the event-id
\* counter unchanged.
C10_UnknownSessionNoEffect == [][UnknownSessionRejected]_vars /\ []AcceptedPostsKnown

\* a POST naming a session that has since closed was rejected while another
\* session is open and events have already been numbered
C10_Witness ==
    /\ lastEvent.kind = "post rejected"
    /\ lastEvent.ch \in destroyed
    /\ sessions # {}
    /\ eventIdCounter > 0

(* -------------- C11: tools/call for an unregistered tool ---------------- *)
\* the registry that serves the transport a request arrived on
RegistryOf(tr) == IF tr = "ws" THEN wsToolRegistry ELSE httpToolRegistry

\* the Response written for request t on socket or stream ch at position i
ResponseAt(tr, ch, i) == IF tr = "ws" THEN wsOut[ch][i] ELSE sseOut[ch][i].data

\* every Response to request t is the "not registered" result, without an
\* error member
OnlyNotRegistered(t) ==
    \A w \in ResponsesTo(t) :
        /\ ResponseAt(w[1], w[2], w[3]).result = "not registered"
        /\ ResponseAt(w[1], w[2], w[3]).error = 0

\* C11: a tools/call request naming a tool that is not in the registry of its
\* transport is answered, on the connection it arrived on, with one Response
\* carrying a result (no error member) whose text says the tool is not
\* registered; no tool handler runs: the request is complete at once and
\* nothing a handler would send is sent.
C11_UnknownToolResult ==
    \A t \in DOMAIN reqs :
        (/\ reqs[t].method = "tools/call" /\ reqs[t].id # NoId
         /\ reqs[t].name \notin RegistryOf(reqs[t].tr))
        => /\ reqs[t].pc = "done" /\ reqs[t].prog = <<>>
           /\ Cardinality(ResponsesTo(t)) = 1
           /\ AnsweredOnOrigin(t)
           /\ OnlyNotRegistered(t)

\* a tools/call for a tool no registry knows was answered "not registered" on
\* the stream of its session
C11_Witness ==
    \E t \in DOMAIN reqs :
        /\ reqs[t].tr = "http" /\ reqs[t].method = "tools/call"
        /\ reqs[t].name = "no_such_tool" /\ reqs[t].id # NoId
        /\ \E i \in SseResponses(reqs[t].ch, t) :
              sseOut[reqs[t].ch][i].data.result = "not registered"

(* --------------- C13: ide-specific tools and transports ----------------- *)
\* the tool names a tools/list Response to request t listed
ListedTo(t) ==
    UNION { ResponseAt(w[1], w[2], w[3]).tools : w \in ResponsesTo(t) }

\* C13: on the HTTP transport tools/list never lists an ide-specific tool and
\* tools/call never runs the handler of one (it is answered "not registered");
\* on both transports tools/list lists every shared tool and tools/call of a
\* shared tool reaches its handler (it is never answered "not registered").
C13_IdeToolsSocketOnly ==
    \A t \in DOMAIN reqs :
        /\ (reqs[t].tr = "http" /\ reqs[t].method = "tools/list")
           => ListedTo(t) \cap IdeToolNames = {}
        /\ (reqs[t].tr = "http" /\ reqs[t].method = "tools/call"
            /\ reqs[t].name \in IdeToolNames)
           => /\ reqs[t].pc = "done" /\ reqs[t].prog = <<>>
              /\ OnlyNotRegistered(t)
        /\ (reqs[t].method = "tools/list" /\ ResponsesTo(t) # {})
           => GeneralToolNames \subseteq ListedTo(t)
        /\ (reqs[t].method = "tools/call" /\ reqs[t].name \in GeneralToolNames)
           => \A w \in ResponsesTo(t) :
                ResponseAt(w[1], w[2], w[3]).result # "not registered"

\* a tools/call of an ide-specific tool arrived over HTTP and was answered
\* "not registered"
C13_Witness ==
    \E t \in DOMAIN reqs :
        /\ reqs[t].tr = "http" /\ reqs[t].method = "tools/call"
        /\ reqs[t].name \in IdeToolNames /\ reqs[t].id # NoId
        /\ ResponsesTo(t) # {}
        /\ OnlyNotRegistered(t)

(* -------------- C19: 404 for unknown, 410 for closed -------------------- *)
\* C19: a POST naming a session id that was never minted is answered 404, and
\* a POST naming the id of a session that was opened and has since closed is
\* answered 410.
C19_GoneWhenClosed ==
    lastEvent.kind = "post rejected"
    => lastEvent.status = (IF lastEvent.ch \in minted THEN 410 ELSE 404)


(* ------------------------- claims on the set-up ------------------------ *)
\* every entry of a registry sits under the name its definition and its
\* implementation both carry
EntriesAgree(registry) ==
    \A k \in DOMAIN registry :
        /\ registry[k].definition.name = k
        /\ registry[k].implementation.name = k

\* C12: ToolRegistry.register raises when the definition and the implementation
\* carry different names, registration is over before a transport starts, and
\* whenever the WebSocket server listens every entry of both registries satisfies
\* key = definition.name = implementation.name
C12_RegistryNamesAgree ==
    /\ (lastSetup.op \in {"register", "registerTools"}
        /\ lastSetup.definition # lastSetup.implementation) => lastSetup.threw
    /\ wss # "none" => phase \in {"started", "stopped"}
    /\ wss = "listening" =>
         /\ EntriesAgree(tools.ws) /\ EntriesAgree(tools.http)
         /\ DOMAIN tools.ws = wsToolRegistry
         /\ DOMAIN tools.http = httpToolRegistry

C12_Witness ==
    /\ wss = "listening"
    /\ DOMAIN tools.ws = wsToolRegistry
    /\ DOMAIN tools.http = httpToolRegistry
    /\ EntriesAgree(tools.ws)

\* the discovery records of this server's port, wherever they lie
OwnRecords == { f \in files : f[Len(f)] = LockFileName(EphemeralPort) }

\* C14: the discovery record is written only after the WebSocket listener is
\* bound: no state holds a record of this server while the listener is not
\* bound, and a start whose bind failed leaves no record behind
C14_RecordOnlyAfterBind ==
    /\ (OwnRecords # {} \/ written # {}) => wss \in {"listening", "closed"}
    /\ wss = "failed" => (OwnRecords = {} /\ written = {} /\ lockFilePath = NoPath)

C14_Witness ==
    /\ lastSetup = Setup("start", TRUE, "-", "-")
    /\ wss = "failed"
    /\ OwnRecords = {}

\* the record another instance left in the same directory
OtherRecords == { f \in files : f[Len(f)] = LockFileName(OtherPort) }

\* C15: once the WebSocket transport has been stopped its discovery record no
\* longer exists; the stop completes without an error, also when the record had
\* already been removed; and the stop removes nothing but the record of its own
\* port
C15_StopRemovesOwnRecord ==
    /\ [](phase = "stopped" =>
            /\ OwnRecords = {}
            /\ ~existsSync(files, lockFilePath)
            /\ ~lastSetup.threw)
    /\ [][(phase # "stopped" /\ phase' = "stopped") =>
            /\ files' = files \ {lockFilePath}
            /\ OtherRecords' = OtherRecords]_vars

C15_Witness ==
    /\ lastSetup = Setup("stop", FALSE, "-", "-")
    /\ wss = "closed"
    /\ written # {}
    /\ OwnRecords = {}
    /\ OtherRecords # {}

\* C16: the record of the server on port p lies at <config-dir>/ide/<p>.lock,
\* where config-dir is what the configuration-directory resolution yields in
\* the environment the server was started in
C16_RecordInConfigDir ==
    written # {} =>
        written = { Join(ideDirAtStart, << LockFileName(EphemeralPort) >>) }

\* C17: getClaudeConfigDir yields the override variable when it is set;
\* otherwise the modern directory when that exists; otherwise the legacy
\* directory when that exists; otherwise the modern directory
C17_ConfigDirResolution ==
    resolved.called =>
        resolved.dir =
            IF processEnv.CLAUDE_CONFIG_DIR # "" THEN << processEnv.CLAUDE_CONFIG_DIR >>
            ELSE IF resolved.modernExisted THEN ModernConfigDir(processEnv)
            ELSE IF resolved.legacyExisted THEN LegacyConfigDir(processEnv)
            ELSE ModernConfigDir(processEnv)

C17_Witness ==
    /\ resolved.called
    /\ processEnv.CLAUDE_CONFIG_DIR = ""
    /\ ~resolved.modernExisted
    /\ resolved.legacyExisted
    /\ resolved.dir = LegacyConfigDir(processEnv)

(* --------------------- claims on routing and closing ------------------- *)
\* C18: the path alias /mcp is served like the paths it stands for: GET /mcp
\* opens a session as GET /sse does and POST /mcp submits as POST /messages
\* does, so no request on /mcp is turned away by the router
C18_AliasesBehaveAlike ==
    ~(lastEvent.kind = "/mcp" /\ lastEvent.status \in {404, 405})

\* sessions whose stream has closed, by disconnect or by stop()
ClosedStreams == destroyed \cup ended
IsEvent(e) == e # WriteAfterEnd
EventsOn(s) == SelectSeq(sseOut[s], IsEvent)
StreamErrors(s) ==
    { i \in 1..Len(sseOut[s]) : sseOut[s][i] = WriteAfterEnd }

\* C20: once the stream of a session has closed, by client disconnect or by a
\* stop of the server, nothing more is written to it, writing to it raises no
\* error, and the session is neither in the session table nor counted as a
\* client
C20_ClosedStreamInert ==
    /\ [](\A s \in ClosedStreams :
            /\ s \notin sessions
            /\ s \notin activeStreams
            /\ StreamErrors(s) = {})
    /\ [][\A s \in ClosedStreams : EventsOn(s)' = EventsOn(s)]_vars

(* ------------------ C21: teardown of a disconnected session ------------- *)
PingsOn(s) == { i \in DOMAIN sseOut[s] : sseOut[s][i].event = "ping" }

\* C21: when the client of a session disconnects or its connection errors, the
\* teardown stops the session's heartbeat timer, removes the session from the
\* session table and from the active-stream set, and calls the orchestrator's
\* disconnection callback exactly once; nothing is written for the session
\* afterwards
C21_TeardownOnDisconnect ==
    /\ [](\A s \in SessionIds :
            IF s \in destroyed
            THEN /\ s \notin pingTimers
                 /\ s \notin sessions
                 /\ s \notin activeStreams
                 /\ httpDisconnections[s] = 1
            ELSE httpDisconnections[s] = 0)
    /\ [][\A s \in destroyed : sseOut'[s] = sseOut[s]]_vars

\* a session whose heartbeat had fired was torn down
C21_Witness ==
    \E s \in destroyed :
        /\ PingsOn(s) # {}
        /\ httpDisconnections[s] = 1
        /\ s \notin pingTimers

(* ------------- C24: notifications in an accepted POST body -------------- *)
IsNotificationEnvelope(msg) == msg.method # "" /\ msg.id = NoId

\* C24: every envelope of an accepted POST body that has a method and no id is
\* forwarded to the router, whether the body is a single envelope, an array of
\* notifications only, or an array that also contains requests
C24_NotificationsForwarded ==
    \A p \in DOMAIN posts :
        (posts[p].pc = "done" /\ posts[p].status = 202)
        => Cardinality(PostTokens(p, NoId))
             = Len(SelectSeq(PostMessages(p), IsNotificationEnvelope))

(* -------- C29: the session closes while the POST body is read ----------- *)
HasRequests(p) == \E i \in DOMAIN PostMessages(p) : IsRequest(PostMessages(p)[i])

\* the step that finishes reading the body of a request-bearing POST whose
\* session has closed meanwhile answers 410 and does nothing else
LateBodyRejected ==
    \A p \in DOMAIN posts :
        (/\ posts[p].pc = "reading"
         /\ posts'[p].pc = "done"
         /\ posts[p].known
         /\ posts[p].sid \notin sessions
         /\ HasRequests(p))
        => /\ posts'[p].status = 410
           /\ reqs' = reqs
           /\ sseOut' = sseOut
           /\ wsOut' = wsOut
           /\ eventIdCounter' = eventIdCounter

\* C29: when the session named by a request-bearing POST is open as the POST
\* arrives and closes while the body is being read, the POST is answered 410,
\* none of its requests reaches the router and no event is written
C29_LateBodyGone ==
    /\ [][LateBodyRejected]_vars
    /\ [](\A p \in DOMAIN posts :
            (posts[p].pc = "done" /\ posts[p].status = 410)
            => /\ \A t \in DOMAIN reqs : ~(reqs[t].tr = "http" /\ reqs[t].post = p)
               /\ posts[p].sid \notin activeStreams)

C29_Witness ==
    \E p \in DOMAIN posts :
        /\ posts[p].pc = "done"
        /\ posts[p].status = 410
        /\ posts[p].known
        /\ HasRequests(p)
        /\ posts[p].sid \in destroyed
        /\ reqs = <<>>

(* ------------------ C30: advisory ids of message events ----------------- *)
\* positions of the message events on stream s
MessagesOn(s) == { i \in DOMAIN sseOut[s] : sseOut[s][i].event = "message" }

\* C30: the ids of message events come from one counter that is never reset or
\* decremented: the ids on a stream strictly increase in emission order, no id
\* exceeds the counter, two events with the same id are the copies of one
\* broadcast on different streams, and every event written by a step carries
\* an id above the counter as it was before the step
C30_EventIdsIncrease ==
    /\ [](\A s \in SessionIds : \A i, j \in MessagesOn(s) :
            i < j => sseOut[s][i].id < sseOut[s][j].id)
    /\ [](\A s \in SessionIds : \A i \in MessagesOn(s) :
            sseOut[s][i].id \in 1..eventIdCounter)
    /\ [](\A s, r \in SessionIds : \A i \in MessagesOn(s), j \in MessagesOn(r) :
            (sseOut[s][i].id = sseOut[r][j].id /\ <<s, i>> # <<r, j>>)
            => /\ s # r
               /\ sseOut[s][i].data.kind = "notification"
               /\ sseOut[s][i].data = sseOut[r][j].data)
    /\ [][/\ eventIdCounter' >= eventIdCounter
          /\ \A s \in SessionIds : \A i \in MessagesOn(s)' :
                i > Len(sseOut[s]) => sseOut'[s][i].id > eventIdCounter]_vars

\* a stream carries a routed reply and a broadcast, and the broadcast reached
\* a second stream under the same id
C30_Witness ==
    \E s, r \in SessionIds :
        /\ s # r
        /\ \E i, j \in MessagesOn(s) :
              /\ i < j
              /\ sseOut[s][i].data.kind # sseOut[s][j].data.kind
        /\ \E i \in MessagesOn(s), j \in MessagesOn(r) :
              sseOut[s][i].id = sseOut[r][j].id

(* ----------------------- C25: loopback-only binds ----------------------- *)
\* C25: both listeners accept connections on the loopback interface only: in
\* every state in which the WebSocket listener or the HTTP listener is bound,
\* the address it is bound to is a loopback address
C25_LoopbackOnly ==
    /\ wsListening => listenHost.ws \in LoopbackAddresses
    /\ httpListening => listenHost.http \in LoopbackAddresses

(* ------------ C26: the WebSocket server fails to start ------------------ *)
\* start() ran with both transports enabled, the WebSocket server failing to
\* start and the HTTP bind succeeding
WsStartFailedOnly ==
    /\ startResult.status # "none"
    /\ config.enableWebSocket /\ config.enableHttp
    /\ faults.ws # "none" /\ faults.http = "none"

\* C26: when the WebSocket server fails to start, start() still starts the HTTP
\* server and, its bind succeeding, returns a result with httpPort set and
\* wsPort undefined; the HTTP server then serves requests
C26_HttpStartsAlone ==
    WsStartFailedOnly
    => /\ startResult.status = "returned"
       /\ startResult.httpPort = DefaultHttpPort
       /\ startResult.wsPort = NoPort
       /\ httpServer /\ httpListening
       /\ \A t \in DOMAIN reqs :
             (/\ reqs[t].tr = "http" /\ reqs[t].id # NoId
              /\ reqs[t].method \in FixedMethods
              /\ reqs[t].pc = "done" /\ ChannelOpen(reqs[t]))
             => AnsweredOnOrigin(t)

\* after such a start an HTTP client opened a session and had its ping answered
C26_Witness ==
    /\ WsStartFailedOnly
    /\ faults.ws = "bind"
    /\ \E t \in DOMAIN reqs :
          /\ reqs[t].tr = "http" /\ reqs[t].method = "ping" /\ reqs[t].id # NoId
          /\ AnsweredOnOrigin(t)

(* ------- C28: the socket closes while a handler is in flight ------------ *)
\* the handler of request t takes its next step in this transition
Resumes(t) ==
    /\ t \in DOMAIN reqs
    /\ reqs[t].pc = "suspended"
    /\ reqs'[t] # reqs[t]

\* a handler that resumes after its socket left OPEN goes on as it would have,
\* and what it replies is written nowhere
ReplyAfterCloseDropped ==
    \A t \in DOMAIN reqs :
        (Resumes(t) /\ reqs[t].tr = "ws" /\ readyState[reqs[t].ch] # "OPEN")
        => /\ wsOut' = wsOut
           /\ sseOut' = sseOut
           /\ reqs'[t].prog = RunSegment(reqs[t].prog).rest
           /\ reqs'[t].pc = IF RunSegment(reqs[t].prog).done THEN "done" ELSE "suspended"

\* C28: when a socket closes while the handler of one of its requests is in
\* flight, the handler can still run to completion; the reply it then issues
\* is sent on no connection, and no Response to a request is ever found on a
\* connection other than the one the request arrived on, nor written after
\* the handler has finished
C28_ReplyAfterCloseDropped ==
    /\ [][ReplyAfterCloseDropped]_vars
    /\ [](\A t \in DOMAIN reqs :
            (reqs[t].pc = "suspended" /\ ~Hung(reqs[t].prog)) => ENABLED HandlerResume(t))
    /\ [](\A t \in DOMAIN reqs : reqs[t].tr = "ws" =>
            \A x \in ResponsesTo(t) : x[1] = "ws" /\ x[2] = reqs[t].ch)
    /\ [][\A t \in DOMAIN reqs :
            reqs[t].pc = "done" => ResponsesTo(t)' = ResponsesTo(t)]_vars

\* a handler replied after its socket had closed: the request has no Response,
\* and the connection accepted afterwards has received nothing
C28_Witness ==
    \E t \in DOMAIN reqs : \E c \in Conns :
        /\ reqs[t].tr = "ws"
        /\ reqs[t].script = <<"await", "reply">>
        /\ reqs[t].pc = "done"
        /\ readyState[reqs[t].ch] = "CLOSED"
        /\ ResponsesTo(t) = {}
        /\ c > reqs[t].ch
        /\ readyState[c] = "OPEN"
        /\ wsOut[c] = <<>>

(* ------------------ C22: a tool handler that throws --------------------- *)
Throws(script) == \E i \in DOMAIN script : script[i] = "throw"

\* an error Response with the code of an internal error was written for
\* request t on the channel it arrived on
InternalErrorSent(t) ==
    LET r == reqs[t] IN
    IF r.tr = "ws"
    THEN \E i \in WsResponses(r.ch, t) :
            wsOut[r.ch][i].id = r.id /\ wsOut[r.ch][i].error = InternalError
    ELSE \E i \in SseResponses(r.ch, t) :
            sseOut[r.ch][i].data.id = r.id /\ sseOut[r.ch][i].data.error = InternalError

\* C22: when the handler of a registered tool throws or rejects during
\* tools/call, an error Response with code -32603 is sent for that request,
\* the call itself completes (a suspended one can always go on, and it ends
\* "done"), and the requests of all connections keep being answered
C22_HandlerFailureCaught ==
    /\ \A t \in DOMAIN reqs :
          (/\ reqs[t].method = "tools/call" /\ Throws(reqs[t].script)
           /\ reqs[t].pc = "done" /\ ChannelOpen(reqs[t]))
          => InternalErrorSent(t)
    /\ \A t \in DOMAIN reqs :
          (Throws(reqs[t].script) /\ reqs[t].pc = "suspended") => ENABLED HandlerResume(t)
    /\ \A t \in DOMAIN reqs :
          (reqs[t].method = "ping" /\ ChannelOpen(reqs[t])) => AnsweredOnOrigin(t)

\* a handler threw and was answered -32603; a ping that arrived afterwards on
\* another channel has its pong
C22_Witness ==
    \E t, u \in DOMAIN reqs :
        /\ reqs[t].method = "tools/call"
        /\ reqs[t].script = <<"throw">>
        /\ InternalErrorSent(t)
        /\ u > t
        /\ reqs[u].method = "ping"
        /\ <<reqs[u].tr, reqs[u].ch>> # <<reqs[t].tr, reqs[t].ch>>
        /\ AnsweredOnOrigin(u)

(* ------------- C23: unknown methods, and any decoded frame -------------- *)
\* the methods some branch of the router serves
RoutedMethods ==
    IdeMethods \cup LegacyMethods \cup {"initialize", "tools/list", "ping", "tools/call"}

\* every Response written for request t is an error Response with the code of
\* "method not found" and carries no result, and there is one on its channel
OnlyMethodNotFound(t) ==
    /\ AnsweredOnOrigin(t)
    /\ \A x \in ResponsesTo(t) :
          LET m == IF x[1] = "ws" THEN wsOut[x[2]][x[3]] ELSE sseOut[x[2]][x[3]].data
          IN  m.error = MethodNotFound /\ m.result = "-"

UnknownMethodAnswered ==
    \A t \in DOMAIN reqs :
        (/\ reqs[t].pc # "rejected" /\ reqs[t].id # NoId
         /\ reqs[t].method \notin RoutedMethods /\ ChannelOpen(reqs[t]))
        => OnlyMethodNotFound(t)

\* no call of the router's entry point ended in a rejected promise
EntryNeverRejects == \A t \in DOMAIN reqs : reqs[t].pc # "rejected"

\* C23: a request with a method no branch of the router serves is answered with
\* an error Response of code -32601 and no result, and the entry point of the
\* router neither throws nor rejects, whatever decoded JSON value a transport
\* hands it
C23_UnknownMethodNeverThrows == UnknownMethodAnswered /\ EntryNeverRejects

(* ---------------- C27: a stalled handler blocks only itself ------------- *)
\* request t was handed to the router, carries an id, and its handler is not
\* the one that never completes
Live(t) ==
    /\ t \in DOMAIN reqs
    /\ reqs[t].pc # "rejected"
    /\ reqs[t].id # NoId
    /\ reqs[t].script # <<"hang">>

\* request t is stalled: its handler awaits a promise that never settles
Stalled(t) == t \in DOMAIN reqs /\ reqs[t].pc = "suspended" /\ Hung(reqs[t].prog)

\* C27: every request whose own handler completes eventually has its Response
\* on the channel it arrived on, unless that channel went away first, also
\* while the handler of another request is suspended for ever; a request that
\* arrived after the stalled one is answered before it
C27_StalledHandlerBlocksOnlyItself ==
    \A t \in 1..MaxCalls :
        Live(t) ~> (t \in DOMAIN reqs /\ (AnsweredOnOrigin(t) \/ ~ChannelOpen(reqs[t])))

\* a tool call is stalled, and a tool call that arrived after it, awaited its
\* I/O and replied has its Response
C27_Witness ==
    \E t, u \in DOMAIN reqs :
        /\ Stalled(t)
        /\ ResponsesTo(t) = {}
        /\ u > t
        /\ reqs[u].method = "tools/call"
        /\ reqs[u].script = <<"await", "reply">>
        /\ AnsweredOnOrigin(u)

(* ------------------ C31: the endpoint event comes first ----------------- *)
EndpointsOn(s) == { i \in DOMAIN sseOut[s] : sseOut[s][i].event = "endpoint" }

SessionOpened(s) ==
    /\ s \notin minted
    /\ s \in minted'
    /\ s \in sessions'
    /\ s \in activeStreams'
    /\ sseOut'[s] = << SSEEvent("endpoint", EndpointData(s), 0) >>

\* C32: every GET on the session-opening path opens a session, whatever the
\* headers of the request: it mints an id, registers the session and emits the
\* endpoint event
C32_GetAlwaysOpens ==
    [][(\E s \in SessionIds : HttpGet(s)) => (\E s \in SessionIds : SessionOpened(s))]_vars

\* the same for the GETs whose Accept header contains text/event-stream
GetOpensWhenAccepted ==
    [][\A s \in SessionIds :
          (httpListening /\ handleSSEConnection(s, TRUE)) => SessionOpened(s)]_vars

(* --------------- C33: the connected-clients set of McpServer ------------ *)
\* the connections that have connected and have neither closed nor errored
Connected ==
    { c \in Conns : /\ readyState[c] # "NONE"
                    /\ wsLog[c].disconnections = 0
                    /\ wsLog[c].errors = 0 }

\* C33: after any sequence of connect, close and error events the
\* connected-clients set holds the connections that connected and neither
\* closed nor errored, clientCount is its size, and the disconnection callback
\* has run once for every closed connection and for no other
C33_ConnectedClientsExact ==
    /\ connectedClients = Connected
    /\ McpServer_clientCount = Cardinality(Connected)
    /\ \A c \in Conns :
          wsLog[c].disconnections = IF readyState[c] = "CLOSED" THEN 1 ELSE 0

\* both 'error' and 'close' fired for one connection while another is connected
C33_Witness ==
    \E c, d \in Conns :
        /\ wsLog[c].errors = 1
        /\ wsLog[c].disconnections = 1
        /\ readyState[c] = "CLOSED"
        /\ connectedClients = {d}
        /\ McpServer_clientCount = 1

(* ------------- C34: updateWorkspaceFolders is idempotent ---------------- *)
\* what a call of updateWorkspaceFolders(p) would leave, from the current state
AfterUpdate(fs, content, p) ==
    McpDualServer_updateWorkspaceFolders(phase = "started", fs, lockFilePath, content, p)

\* a second call with the same path changes nothing the first call left
UpdateIdempotent ==
    \A p \in BasePaths :
        LET once == AfterUpdate(files, lockContent, p)
        IN  AfterUpdate(once.files, once.content, p) = once

\* the step was a call of updateWorkspaceFolders: no path appeared or went
\* away, the record stayed where it was with its pid, ideName and transport,
\* and it holds the new root as its only workspace folder when it exists
UpdateTouchesOneField ==
    lastSetup'.op = "update" =>
        /\ files' = files
        /\ lockFilePath' = lockFilePath
        /\ lockContent'.pid = lockContent.pid
        /\ lockContent'.ideName = lockContent.ideName
        /\ lockContent'.transport = lockContent.transport
        /\ (phase = "started" /\ lockFilePath \in files)
              => lockContent'.workspaceFolders = << lastSetup'.definition >>
        /\ (phase # "started" \/ lockFilePath \notin files) => lockContent' = NoRecord

\* C34: updateWorkspaceFolders(p) is idempotent and touches one field only:
\* pid, ideName and transport keep their values, the record is neither moved
\* nor renamed, and no record is created when none exists
C34_UpdateIdempotent == []UpdateIdempotent /\ [][UpdateTouchesOneField]_vars

\* the root changed while the record existed, and the record names the new root
C34_Witness ==
    /\ lastSetup.op = "update"
    /\ phase = "started"
    /\ lockFilePath \in files
    /\ lockContent = LockRecord(<<"/moved">>)

(* ------------- C35: the results of the static methods ------------------- *)
\* the literal each static method answers with
StaticResult(method) ==
    CASE method = "ping" -> "pong"
      [] method = "initialize" -> "initialize"
      [] method = "prompts/list" -> "prompts: []"
      [] method = "resources/list" -> "resources: []"

\* the Responses written for request t, as decoded by the client
ResponseBodies(t) ==
    { IF x[1] = "ws" THEN wsOut[x[2]][x[3]] ELSE sseOut[x[2]][x[3]].data : x \in ResponsesTo(t) }

\* C35: a request for a static method is answered on its channel with the id of
\* the request and the literal result of that method, whatever its params, the
\* transport it arrived on and the requests before it
C35_StaticResults ==
    \A t \in DOMAIN reqs :
        (reqs[t].method \in StaticMethods /\ reqs[t].id # NoId /\ ChannelOpen(reqs[t]))
        => /\ AnsweredOnOrigin(t)
           /\ \A m \in ResponseBodies(t) :
                 /\ m.id = reqs[t].id
                 /\ m.error = 0
                 /\ m.result = StaticResult(reqs[t].method)

\* initialize arrived twice, on different transports and with different params,
\* and both Responses carry the same result
C35_Witness ==
    \E t, u \in DOMAIN reqs :
        /\ t < u
        /\ reqs[t].method = "initialize" /\ reqs[u].method = "initialize"
        /\ reqs[t].tr # reqs[u].tr
        /\ reqs[t].name # reqs[u].name
        /\ AnsweredOnOrigin(t) /\ AnsweredOnOrigin(u)
        /\ \A m \in ResponseBodies(t) \cup ResponseBodies(u) : m.result = "initialize"

(* -------- C36: the IDE notifications and the initial context ------------ *)
\* the clients connected right now, as the transports see them
OpenSockets == { c \in Conns : readyState[c] = "OPEN" }
OpenStreams == { s \in minted : s \notin destroyed /\ s \notin ended }

\* the delayed send fired in this step: every connected client of a running
\* server got one more notification, nobody else got anything, and no write
\* failed
InitialContextSent ==
    initTimers' < initTimers =>
        /\ \A c \in Conns :
              wsOut'[c] = IF wsServer /\ c \in OpenSockets
                          THEN Append(wsOut[c], WireNotification(Len(bcastLog) + 1))
                          ELSE wsOut[c]
        /\ \A s \in SessionIds :
              IF httpServer /\ s \in OpenStreams
              THEN /\ Len(sseOut'[s]) = Len(sseOut[s]) + 1
                   /\ sseOut'[s][Len(sseOut'[s])].event = "message"
                   /\ sseOut'[s][Len(sseOut'[s])].data = WireNotification(Len(bcastLog) + 1)
              ELSE sseOut'[s] = sseOut[s]

C37_TablesAgree ==
    /\ sessions = activeStreams
    /\ sessions \subseteq minted \ destroyed
    /\ McpHttpServer_clientCount = Cardinality(sessions)

\* one session closed, another is still open and counted
C37_Witness ==
    /\ destroyed # {}
    /\ sessions # {}
    /\ McpHttpServer_clientCount = 1
    /\ \E s \in sessions : PingsOn(s) # {}

(* --------------- C38: getServerInfo matches the listeners --------------- *)
HttpPortReported ==
    /\ getServerInfo.httpPort.defined <=> httpListening
    /\ httpListening => getServerInfo.httpPort.value = DefaultHttpPort

WsPortReported ==
    /\ getServerInfo.wsPort.defined <=> wsListening
    /\ wsListening => getServerInfo.wsPort.value = EphemeralPort

\* C38: getServerInfo().wsPort is defined, and is the bound port, exactly when
\* the WebSocket listener is running, and getServerInfo().httpPort is defined,
\* and is the bound port, exactly when the HTTP listener is running
C38_ServerInfoMatches == WsPortReported /\ HttpPortReported

\* what does hold: a running HTTP listener is reported with its port
HttpPortWhenListening ==
    httpListening => getServerInfo.httpPort = Defined(DefaultHttpPort)

(* --------------- C39: one orchestrator at a time ------------------------ *)
RunningInstances == { i \in DOMAIN plugin.instances : Running(plugin.instances[i]) }

AtMostOneRunning == Cardinality(RunningInstances) <= 1

\* once onunload has run, no orchestrator of the plugin holds a listener or a
\* discovery record
CleanAfterUnload == plugin.unloaded => RunningInstances = {}

\* C39: whatever the interleaving of onload, restartMcpServer calls and
\* onunload, at most one orchestrator of the plugin has running listeners,
\* every orchestrator that was started is stopped in the end, and after unload
\* no listener and no discovery record of the plugin is left
C39_OneOrchestrator ==
    /\ []AtMostOneRunning
    /\ []CleanAfterUnload
    /\ \A i \in 1..(MaxRestarts + 1) : <>[](i \notin RunningInstances)

\* what does hold: restarts that do not overlap keep one orchestrator at most
\* while the plugin is loaded
SerialRestarts ==
    (~plugin.unloaded /\ plugin.delays = 0 /\ plugin.restarts <= 1) => AtMostOneRunning

(* --------------- C40: create never overwrites a file -------------------- *)
\* C40: no create call writes over a file that exists, so of the create calls
\* for one path at most one replies success
C40_CreateNeverOverwrites ==
    /\ \A i \in DOMAIN vault.calls : ~vault.calls[i].overwrote
    /\ \A i, j \in DOMAIN vault.calls :
          (/\ i # j
           /\ vault.calls[i].path = vault.calls[j].path
           /\ vault.calls[i].outcome = "created")
          => vault.calls[j].outcome # "created"

\* what does hold: a create call that starts after the file was written
\* replies that the file exists
LateCreateRefused ==
    [][\A i \in DOMAIN vault.calls :
          (vault.calls[i].pc = "reading" /\ vault.content[vault.calls[i].path] # NoFile
           /\ vault'.calls[i].pc # "reading")
          => vault'.calls[i].outcome = "exists" /\ vault'.content = vault.content]_vars
====
